---- MODULE Spec2Model ----
(***************************************************************************)
(* A model of the orchestration core of claude-code-controller:            *)
(* ClaudeCodeController (controller.ts) composed with the Team Registry,   *)
(* the Process Supervisor, the Task Ledger and the Mailbox.                *)
(*                                                                         *)
(* The controller is translated from its source.  team-manager.ts,         *)
(* process-manager.ts, task-manager.ts and inbox.ts are not part of the    *)
(* available sources: their operators (Team*, PM_*, Task*, WriteInbox,     *)
(* ReadUnread, ParseMessage) follow sections 4.1-4.4 of the specification. *)
(*                                                                         *)
(* Every async method is cut at its awaits: one action per continuation.   *)
(* The variable last names the step that produced the current state, so    *)
(* that a postcondition ("when X returns, ...") is a state predicate.      *)
(***************************************************************************)
EXTENDS Naturals, Integers, Sequences, FiniteSets, TLC

\* ---------------------------------------------------------------- bounds
MaxSpawns == 2        \* processes spawned in one behaviour
MaxInits == 2         \* init() calls in one behaviour
MaxShutdowns == 1     \* shutdown() calls in one behaviour
MaxPending == 1       \* spawnAgent(name) calls in flight for one name
MaxKills == 1         \* killAgent() calls in one behaviour
MaxTasks == 2         \* task ids the ledger may assign
MaxAssigns == 1       \* assignTask() calls in one behaviour
MaxMsgs == 2          \* messages the agents write to the controller
MaxTime == 2          \* clock readings told apart (the clock stays at the last)
MaxBatch == 3         \* messages in one unread batch
MaxRequests == 4      \* requests to /session/init and /session/shutdown
MaxAttaches == 2      \* attach() calls in one behaviour

Agents == {"w1", "w2"}
TeamNames == {"t1", "t2"}
InitSlots == {1, 2}
ExitCodes == {"0"}             \* a process's own exit code
NullCode == "null"             \* exit code of a process ended by a signal
Controller == "controller"     \* the controller's own mailbox and sender name
Subjects == {"Fix bug", "Task 1"}
CreateSlots == {1, 2}          \* createTask() calls that may overlap
Owners == {"", "w1"}           \* task.owner of a createTask() call ("": none)
TaskIds == 1..MaxTasks
Timeouts == {0, 1, 2}          \* opts.timeout, in clock ticks
Intervals == {1}               \* opts.pollInterval, in clock ticks

VARIABLES
    teamName,      \* ClaudeCodeController.teamName
    initialized,   \* ClaudeCodeController.initialized
    team,          \* the team's config file: [exists, name, members]
    pollerRunning, \* InboxPoller: running / stopped
    procs,         \* pids of the live OS processes
    pidName,       \* pidName[pid]: the agent name process pid was spawned under
    tracked,       \* ProcessManager's map: name -> pid (0: none)
    armed,         \* pids carrying the controller's exit listener (onExit)
    signalled,     \* pids that were sent a termination signal
    events,        \* events[name]: the agent events emitted for name, in order
    inbox,         \* inbox[name]: the mailbox of agent name
    initPc,        \* initPc[slot]: where an init() call stands
    nInits,        \* init() calls made
    creates,       \* team.create() calls that succeeded since the last destroy
    ledgerInits,   \* tasks.init() calls since the last destroy
    pollerStarts,  \* poller.start() calls since the last poller.stop()
    shutPc,        \* where the shutdown() call stands
    nShutdowns,    \* shutdown() calls made
    shutSnap,      \* shutdown(): const running
    shutTodo,      \* shutdown(): names the for loop has not reached yet
    shutSent,      \* shutdown(): names whose shutdown_request was written
    shutWait,      \* shutdown(): pids whose wait promise is pending
    shutExpired,   \* shutdown(): pids whose 10 s timer fired
    shutKill,      \* killAll(): the pids it is waiting for
    pending,       \* pending[name]: spawnAgent(name) calls awaiting addMember
    killPc,        \* killPc[name]: where the killAgent(name) call stands
    killPid,       \* killPc[name] = "killing": the pid kill() waits for
    nKills,        \* killAgent() calls made
    ledger,        \* ledger[id]: the task record with that id, if any
    nextId,        \* the ledger's identifier counter
    issued,        \* the ids tasks.create() has assigned, in order
    deleted,       \* the ids whose record was removed
    subjOf,        \* subjOf[id]: the subject the task with that id was created with
    ctPc,          \* ctPc[slot]: where a createTask() call stands
    ctArg,         \* ctArg[slot]: its argument, then fullTask; [subject, owner]
    ctId,          \* ctId[slot]: const taskId
    atPc,          \* where the assignTask() call stands
    atArg,         \* assignTask(): [id, to, subject] (subject: of the updated task)
    nAssigns,      \* assignTask() calls made
    lastId,        \* the task id the step recorded in last is about (0: none)
    cursor,        \* the controller's read cursor in its own mailbox
    nMsgs,         \* messages the agents have written to the controller
    now,           \* Date.now(), in ticks
    recvPc,        \* where the receive() call stands
    recvArg,       \* receive(): [from, all, interval]
    recvDeadline,  \* receive(): const deadline
    recvSleep,     \* receive(): ticks until sleep(interval) resolves
    recvSeen,      \* receive(): const unread, of the latest poll
    recvOut,       \* what receive() returned
    recvErr,       \* what receive() threw: [timeout, name]
    batch,         \* receive() / receiveAny(): const unread, of one turn of the loop
    picked,        \* what that turn returns (<<>>: nothing, it goes on to sleep)
    approvals,     \* ActionTracker.approvals: Map requestId -> PendingApproval
    idleAgents,    \* ActionTracker.idles: Map agent name -> IdleAgent
    agentTypes,    \* ActionTracker.agentTypes ("": no entry)
    listeners,     \* ActionTracker.listeners
    currentController, \* ActionTracker.currentController
    emitter,       \* per controller: the listeners put on it, in order
    nAttach,       \* attach() calls so far (each makes its own closures)
    lastCtl,       \* the controller of the step that produced the state
    external,      \* the controller handed to createApi() (or none)
    apiController, \* ApiState.controller
    owned,         \* ApiState.owned
    initLock,      \* ApiState.initLock
    ctlStatus,     \* per controller object: where its lifecycle stands
    reqPc,         \* per request in flight: the await its handler is at
    reqCtl,        \* per request: its oldController / controller / ctrl
    reqValid,      \* per /session/init request: does body.teamName validate
    nReqs,         \* requests so far
    routeVal,      \* the latest route request: its path value and body value
    routeOps,      \* the calls its handler made for those values
    resp,          \* its response: status and error
    last           \* <<operation, argument, step>> that produced this state

ctlVars == <<teamName, initialized, team, pollerRunning, inbox>>
procVars == <<procs, pidName, tracked, armed, signalled, events>>
initVars == <<initPc, nInits, creates, ledgerInits, pollerStarts>>
shutVars == <<shutPc, nShutdowns, shutSnap, shutTodo, shutSent, shutWait,
              shutExpired, shutKill>>
callVars == <<pending, killPc, killPid, nKills>>
lifeVars == <<ctlVars, procVars, initVars, shutVars, callVars>>

ledgerVars == <<ledger, nextId, issued, deleted, subjOf>>
taskVars == <<ledgerVars, ctPc, ctArg, ctId, atPc, atArg, nAssigns, lastId>>
recvVars == <<now, recvPc, recvArg, recvDeadline, recvSleep, recvSeen, recvOut,
              recvErr>>
batchVars == <<batch, picked>>
trkVars ==
    <<approvals, idleAgents, agentTypes, listeners, currentController, emitter,
      nAttach, lastCtl>>
apiVars ==
    <<external, apiController, owned, initLock, ctlStatus, reqPc, reqCtl,
      reqValid, nReqs>>
routeVars == <<routeVal, routeOps, resp>>

VARIABLES
    listed,        \* what ctrl.tasks.list() returns to GET /actions
    actions        \* the body of the last GET /actions response

actVars == <<listed, actions>>

VARIABLES
    pollBusy,      \* InboxPoller: poll cycles in flight
    pollGot,       \* entries the cycles in flight have read and not yet emitted
    pollUnread,    \* unread entries in the controller's mailbox
    pollOut,       \* entries emitted to the consumer so far
    nTicks         \* ticks of the interval timer so far

pollVars == <<pollBusy, pollGot, pollUnread, pollOut, nTicks>>

VARIABLES
    killRes        \* per name: how the kill() of the killAgent() now removing settled

VARIABLES
    envArgs,       \* the arguments of a protocol send
    envText,       \* the text it wrote: JSON.stringify of its envelope
    envRead        \* that text read back and classified

envVars == <<envArgs, envText, envRead>>
VARIABLES
    mailPending,   \* writeInbox() calls in flight: <<[to, entry, seen, op]>>
    mailAccepted,  \* per mailbox: writeInbox() calls made so far
    mailOverlapped,\* a write has landed on a log that grew while it was in flight
    nSends,        \* messaging calls so far
    bcPc,          \* broadcast(): "idle", "config" or "writing"
    bcMsg,         \* broadcast(): its message argument
    bcMembers,     \* broadcast(): config.members as read
    bcLeft         \* broadcast(): its sends that have not settled

mailVars ==
    <<mailPending, mailAccepted, mailOverlapped, nSends, bcPc, bcMsg, bcMembers, bcLeft>>
VARIABLES
    polled,        \* the batch the poller hands to handlePollEvents()
    handled,       \* handlePollEvents() has run on it
    emitted        \* the events it emitted, in the order of emission

evtVars == <<polled, handled, emitted>>

VARIABLES
    defaultEnv,    \* this.defaultEnv
    optsEnv,       \* opts.env of a spawnAgent() call
    spawnEnv       \* the env spawnAgent() hands to processes.spawn()

mergeVars == <<defaultEnv, optsEnv, spawnEnv>>
tailVars == <<evtVars, mergeVars>>
extraVars == <<pollVars, killRes, envVars, mailVars, tailVars>>
laterVars == <<routeVars, actVars, extraVars>>
moreVars == <<batchVars, trkVars, apiVars, laterVars>>
coreVars == <<lifeVars, taskVars, cursor, nMsgs, recvVars>>
restVars == <<taskVars, cursor, nMsgs, recvVars, moreVars>>

vars == <<lifeVars, last, restVars>>

\* ------------------------------------------------------- Team Registry (4.3)
NoTeam == [exists |-> FALSE, name |-> "", members |-> {}]

\* create(): fails if the team already has live state; else writes the config
TeamCreate(t, name) ==
    IF t.exists THEN [ok |-> FALSE, team |-> t]
    ELSE [ok |-> TRUE,
          team |-> [exists |-> TRUE, name |-> name, members |-> {"controller"}]]

\* getConfig(): fails with not-found when the namespace does not exist
GetConfig(t) ==
    IF t.exists THEN [ok |-> TRUE, name |-> t.name, members |-> t.members]
    ELSE [ok |-> FALSE, name |-> "", members |-> {}]

\* addMember(): idempotent; fails when the namespace does not exist
TeamAddMember(t, n) ==
    IF t.exists THEN [ok |-> TRUE, team |-> [t EXCEPT !.members = @ \cup {n}]]
    ELSE [ok |-> FALSE, team |-> t]

\* removeMember(): idempotent; fails when the namespace does not exist
TeamRemoveMember(t, n) ==
    IF t.exists THEN [ok |-> TRUE, team |-> [t EXCEPT !.members = @ \ {n}]]
    ELSE [ok |-> FALSE, team |-> t]

\* destroy(): recursively deletes the namespace
TeamDestroy(t) == NoTeam

\* -------------------------------------------------- Process Supervisor (4.4)
\* isRunning(name): the live state of the tracked process
PM_IsRunning(trk, live, n) == trk[n] # 0 /\ trk[n] \in live

\* runningAgents(): the tracked names whose process is live
PM_RunningAgents(trk, live) == {n \in Agents : PM_IsRunning(trk, live, n)}

PM_SpawnRejects_supersede(trk, live, n) == FALSE

\* spawn(): a second process under a name still running is rejected
PM_SpawnRejects(trk, live, n) == PM_IsRunning(trk, live, n)

RunningAgents == PM_RunningAgents(tracked, procs)

\* the live processes spawned under name n
LiveOf(n) == {p \in procs : pidName[p] = n}

\* ------------------------------------------------------------- Mailbox (4.1)
\* JSON.stringify of a protocol envelope; a plain text is [json |-> FALSE]
ShutdownRequestText(n) ==
    [json |-> TRUE, type |-> "shutdown_request", requestId |-> n,
     taskId |-> 0, subject |-> ""]

\* writeInbox(): appends one envelope to the recipient's log
WriteInbox(box, to, text) ==
    [box EXCEPT ![to] = Append(@, [from |-> Controller, text |-> text])]

EmptyInbox == [n \in Agents \cup {Controller} |-> <<>>]

\* a text that is no JSON
PlainText ==
    [json |-> FALSE, type |-> "", requestId |-> "", taskId |-> 0, subject |-> ""]

\* JSON.stringify of an envelope of that type
ProtocolText(type) ==
    [json |-> TRUE, type |-> type, requestId |-> "", taskId |-> 0, subject |-> ""]

\* what an agent may write to the controller
AgentTexts ==
    {PlainText, ProtocolText("idle_notification"),
     ProtocolText("shutdown_approved"), ProtocolText("note")}

\* the texts an unread batch may hold
BatchTexts ==
    AgentTexts \cup {ProtocolText("plan_approval_response"),
                     ProtocolText("permission_response"),
                     ProtocolText("plan_approval_request")}

\* the unread batches readUnread() may return
Batches ==
    UNION {[1..k -> [from : Agents, text : BatchTexts]] : k \in 0..MaxBatch}

KnownTypes ==
    {"idle_notification", "shutdown_request", "shutdown_approved",
     "plan_approval_request", "plan_approval_response", "permission_request",
     "permission_response", "task_assignment"}

\* parseMessage(): an unknown or malformed payload degrades to plain text
ParseMessage(m) ==
    IF m.text.json /\ m.text.type \in KnownTypes THEN [type |-> m.text.type]
    ELSE [type |-> "plain_text"]

\* readUnread(): the envelopes after the reader's cursor; advances the cursor
ReadUnread(box, cur) ==
    [unread |-> SubSeq(box[Controller], cur + 1, Len(box[Controller])),
     cursor |-> Len(box[Controller])]

\* ---------------------------------------------------------- Task Ledger
\* Task ids are the numerals "1", "2", ...; the model keeps the numbers.
NoTask == [exists |-> FALSE, subject |-> "", owner |-> ""]

EmptyLedger == [i \in TaskIds |-> NoTask]

Max(S) == CHOOSE x \in S : \A y \in S : y <= x

\* list(): the records of the team's task directory
TaskList(l) == {i \in TaskIds : l[i].exists}

TaskNextId_scan(l, k) == IF TaskList(l) = {} THEN 1 ELSE Max(TaskList(l)) + 1

\* the id create() assigns: starts at "1" and increments per creation
TaskNextId(l, k) == k

\* create(): writes the record of a new task, status pending
TaskCreate(l, id, subj, owner) ==
    [l EXCEPT ![id] = [exists |-> TRUE, subject |-> subj, owner |-> owner]]

\* get(id): fails with not-found when there is no such record
TaskGet(l, id) ==
    IF id \in TaskIds /\ l[id].exists THEN [ok |-> TRUE, task |-> l[id]]
    ELSE [ok |-> FALSE, task |-> NoTask]

\* update(id, {owner}): fails with not-found; else returns the updated record
TaskUpdateOwner(l, id, owner) ==
    IF id \in TaskIds /\ l[id].exists
    THEN [ok |-> TRUE, ledger |-> [l EXCEPT ![id].owner = owner],
          task |-> [l[id] EXCEPT !.owner = owner]]
    ELSE [ok |-> FALSE, ledger |-> l, task |-> NoTask]

\* delete(id): removes the record
TaskDelete(l, id) == [l EXCEPT ![id] = NoTask]

EnsureInitialized_skip(init) == TRUE

\* ------------------------------------------------------------ Controller
\* ensureInitialized(): the call goes on only when initialized
EnsureInitialized(init) == init

\* this.emit("agent:spawned", opts.name, pid)
EmitSpawned(ev, n) == [ev EXCEPT ![n] = Append(@, <<"agent:spawned", n, "">>)]

\* the exit listener's body: this.emit("agent:exited", opts.name, code)
EmitExited(ev, n, code) == [ev EXCEPT ![n] = Append(@, <<"agent:exited", n, code>>)]

ArmExit_none(arm, pid) == arm

\* this.processes.onExit(opts.name, cb): the listener is put on the process
\* just spawned under that name
ArmExit(arm, pid) == arm \cup {pid}

\* init(): if (this.initialized) return this
InitDone(pc) == initialized

ShutdownTeam_keep(t) == t

\* shutdown(): await this.team.destroy()
ShutdownTeam(t) == TeamDestroy(t)

\* createTask(): if (task.owner)
OwnerSet_never(owner) == FALSE

OwnerSet(owner) == owner # ""

\* createTask() / assignTask(): JSON.stringify({type: "task_assignment", ...})
TaskAssignmentText(id, subj) ==
    [json |-> TRUE, type |-> "task_assignment", requestId |-> "",
     taskId |-> id, subject |-> subj]

PROTOCOL_ONLY_TYPES_none == {}

PROTOCOL_ONLY_TYPES ==
    {"shutdown_approved", "plan_approval_response", "permission_response"}

\* receive(): the filter of const meaningful
Meaningful(m) ==
    /\ ParseMessage(m).type # "idle_notification"
    /\ ParseMessage(m).type \notin PROTOCOL_ONLY_TYPES

IsIdle_never(m) == FALSE

\* receive(): the filter of const idles
IsIdle(m) == ParseMessage(m).type = "idle_notification"

\* receive(): what one turn of the loop returns from const unread
\* (<<>>: nothing, the loop goes on to sleep)
ReceiveResult(unread, name, all) ==
    LET fromAgent == SelectSeq(unread, LAMBDA m : m.from = name)
        meaningful == SelectSeq(fromAgent, Meaningful)
        idles == SelectSeq(fromAgent, IsIdle)
    IN IF fromAgent # <<>> /\ meaningful # <<>>
       THEN (IF all THEN meaningful ELSE <<meaningful[1]>>)
       ELSE IF fromAgent # <<>> /\ idles # <<>>
       THEN (IF all THEN idles ELSE <<idles[1]>>)
       ELSE <<>>

\* receiveAny(): what one turn of the loop returns from const unread
ReceiveAnyResult(unread) ==
    LET meaningful == SelectSeq(unread, Meaningful)
    IN IF meaningful # <<>> THEN <<meaningful[1]>> ELSE <<>>

DeadlineOpen_always(t, deadline) == TRUE

\* receive(): while (Date.now() < deadline)
DeadlineOpen(t, deadline) == t < deadline

NoArg == [subject |-> "", owner |-> ""]
NoAssign == [id |-> 0, to |-> "", subject |-> ""]
NoReceive == [from |-> "", all |-> FALSE, interval |-> 0, timeout |-> 0]
NoError == [timeout |-> 0, name |-> ""]

Step(op, arg, what) == <<op, arg, what>>

\* a step inside a call, which no claim observes
Quiet == Step("", "", "")

\* the controller as constructed: new ClaudeCodeController({teamName})
Fresh ==
    /\ teamName \in TeamNames
    /\ initialized = FALSE
    /\ team = NoTeam
    /\ pollerRunning = FALSE
    /\ initPc = [c \in InitSlots |-> "idle"]
    /\ nInits = 0
    /\ creates = 0
    /\ ledgerInits = 0
    /\ pollerStarts = 0
    /\ last = Step("new", "", "")

\* the controller of team "t1" once init() has returned
Started ==
    /\ teamName = "t1"
    /\ initialized = TRUE
    /\ team = TeamCreate(NoTeam, teamName).team
    /\ pollerRunning = TRUE
    /\ initPc = [c \in InitSlots |-> "idle"]
    /\ nInits = 1
    /\ creates = 1
    /\ ledgerInits = 1
    /\ pollerStarts = 1
    /\ last = Step("init", "", "return")

\* no agent process, no call in flight, empty mailboxes and ledger
IdleAfter(k) ==
    /\ procs = {}
    /\ pidName = <<>>
    /\ tracked = [n \in Agents |-> 0]
    /\ armed = {}
    /\ signalled = {}
    /\ events = [n \in Agents |-> <<>>]
    /\ inbox = EmptyInbox
    /\ shutPc = "idle"
    /\ nShutdowns = k
    /\ shutSnap = {}
    /\ shutTodo = {}
    /\ shutSent = {}
    /\ shutWait = {}
    /\ shutExpired = {}
    /\ shutKill = {}
    /\ pending = [n \in Agents |-> 0]
    /\ killPc = [n \in Agents |-> "idle"]
    /\ killPid = [n \in Agents |-> 0]
    /\ nKills = 0
    /\ ledger = EmptyLedger
    /\ nextId = 1
    /\ issued = <<>>
    /\ deleted = {}
    /\ subjOf = [i \in TaskIds |-> ""]
    /\ ctPc = [c \in CreateSlots |-> "idle"]
    /\ ctArg = [c \in CreateSlots |-> NoArg]
    /\ ctId = [c \in CreateSlots |-> 0]
    /\ atPc = "idle"
    /\ atArg = NoAssign
    /\ nAssigns = 0
    /\ lastId = 0
    /\ cursor = 0
    /\ nMsgs = 0
    /\ now = 0
    /\ recvPc = "idle"
    /\ recvArg = NoReceive
    /\ recvDeadline = 0
    /\ recvSleep = 0
    /\ recvSeen = <<>>
    /\ recvOut = <<>>
    /\ recvErr = NoError

Idle == IdleAfter(0)

\* a controller once init() and then shutdown() have returned
Stopped ==
    /\ teamName \in TeamNames
    /\ initialized = FALSE
    /\ team = TeamDestroy(TeamCreate(NoTeam, teamName).team)
    /\ pollerRunning = FALSE
    /\ initPc = [c \in InitSlots |-> "idle"]
    /\ nInits = 1
    /\ creates = 0
    /\ ledgerInits = 0
    /\ pollerStarts = 0
    /\ last = Step("shutdown", "", "return")

\* ------------------------------------------------------- Action Tracker
Ctls == {"c1", "c2"}           \* the controllers a tracker is attached to
NoCtl == "null"
RequestIds == {"r1", "r2"}
AgentTypeNames == {"general-purpose"}
TypedAgents == {"w1"}         \* the agents whose type gets registered

\* JSON.stringify of a request envelope with that requestId
RequestText(type, rid) ==
    [json |-> TRUE, type |-> type, requestId |-> rid, taskId |-> 0, subject |-> ""]

\* what an agent may write to the controller of a tracked session
TrackerTexts ==
    {PlainText, ProtocolText("idle_notification"),
     ProtocolText("shutdown_approved")}
       \cup {RequestText(t, r) :
                        t \in {"plan_approval_request", "permission_request"},
                        r \in RequestIds}

\* a Map, in insertion order, as a sequence of [k, v]
MapHas(m, k) == \E i \in 1..Len(m) : m[i].k = k

MapSet_append(m, k, v) == Append(m, [k |-> k, v |-> v])

\* Map.set(): replaces the value of a key it has, else adds the key last
MapSet(m, k, v) ==
    IF MapHas(m, k)
    THEN [i \in 1..Len(m) |-> IF m[i].k = k THEN [k |-> k, v |-> v] ELSE m[i]]
    ELSE Append(m, [k |-> k, v |-> v])

MapDelete_all(m, k) == <<>>

MapDelete(m, k) == SelectSeq(m, LAMBDA e : e.k # k)

\* Array.from(map.values())
MapValues(m) == [i \in 1..Len(m) |-> m[i].v]

\* the events attach() puts a listener on, in its order
TrackedEvents ==
    <<"plan:approval_request", "permission:request", "idle", "message",
      "agent:spawned", "agent:exited">>

\* the tracker's maps
TrackerMaps == [approvals |-> approvals, idles |-> idleAgents]

OnExited_keep(st, agent) == [st EXCEPT !.idles = MapDelete(@, agent)]

\* onExited: drops the idle entry and every approval of that agent
OnExited(st, agent) ==
    [approvals |-> SelectSeq(st.approvals, LAMBDA e : e.v.agent # agent),
     idles |-> MapDelete(st.idles, agent)]

OnMessage_keep(st, agent) == st

\* onMessage
OnMessage(st, agent) == [st EXCEPT !.idles = MapDelete(@, agent)]

\* the listener attach() puts on that event: onPlan, onPermission, onIdle,
\* onMessage, onSpawned, onExited
Listener(ev, st, agent, rid) ==
    CASE ev = "plan:approval_request" ->
           [st EXCEPT !.approvals =
               MapSet(@, rid, [type |-> "plan", agent |-> agent, requestId |-> rid])]
      [] ev = "permission:request" ->
           [st EXCEPT !.approvals =
               MapSet(@, rid, [type |-> "permission", agent |-> agent,
                               requestId |-> rid])]
      [] ev = "idle" ->
           [st EXCEPT !.idles =
               MapSet(@, agent,
                      [name |-> agent,
                       type |-> IF agentTypes[agent] # "" THEN agentTypes[agent]
                                ELSE "unknown"])]
      [] ev = "message" -> OnMessage(st, agent)
      [] ev = "agent:spawned" -> [st EXCEPT !.idles = MapDelete(@, agent)]
      [] ev = "agent:exited" -> OnExited(st, agent)
      [] OTHER -> st

\* EventEmitter.emit(): every listener of the event runs, in order; the
\* tracker's closures all act on the one tracker
RECURSIVE RunListeners(_, _, _, _, _)
RunListeners(n, ev, st, agent, rid) ==
    IF n = 0 THEN st
    ELSE RunListeners(n - 1, ev, Listener(ev, st, agent, rid), agent, rid)

EmitTo(c, ev, agent, rid) ==
    RunListeners(Len(SelectSeq(emitter[c], LAMBDA l : l.event = ev)),
                 ev, TrackerMaps, agent, rid)

\* EventEmitter.removeListener(event, fn): takes the most recently added
\* instance of that listener off the list
RemoveListener(ls, l) ==
    IF \E i \in 1..Len(ls) : ls[i] = l
    THEN LET i == CHOOSE j \in 1..Len(ls) :
                      ls[j] = l /\ \A h \in (j + 1)..Len(ls) : ls[h] # l
         IN SubSeq(ls, 1, i - 1) \o SubSeq(ls, i + 1, Len(ls))
    ELSE ls

RECURSIVE RemoveAll(_, _)
RemoveAll(ls, mine) ==
    IF mine = <<>> THEN ls
    ELSE RemoveAll(RemoveListener(ls, Head(mine)), Tail(mine))

Detached_keep(em) == em

\* detach(): the loop over this.listeners on this.currentController
Detached(em) ==
    IF currentController # NoCtl
    THEN [em EXCEPT ![currentController] = RemoveAll(@, listeners)]
    ELSE em

PollEventName_message(m) ==
    LET t == ParseMessage(m).type
    IN CASE t = "idle_notification" -> "idle"
         [] t = "plan_approval_request" -> "plan:approval_request"
         [] t = "permission_request" -> "permission:request"
         [] OTHER -> "message"

\* handlePollEvents(): the event emitted for one polled message
PollEventName(m) ==
    LET t == ParseMessage(m).type
    IN CASE t = "idle_notification" -> "idle"
         [] t = "shutdown_approved" -> "shutdown:approved"
         [] t = "plan_approval_request" -> "plan:approval_request"
         [] t = "permission_request" -> "permission:request"
         [] OTHER -> "message"

\* new ActionTracker(), and controllers with no listener on them
NewTracker ==
    /\ approvals = <<>>
    /\ idleAgents = <<>>
    /\ agentTypes = [n \in Agents |-> ""]
    /\ listeners = <<>>
    /\ currentController = NoCtl
    /\ emitter = [c \in Ctls |-> <<>>]
    /\ nAttach = 0
    /\ lastCtl = NoCtl

\* --------------------------------------------------------------- REST API
ReqSlots == {1, 2}             \* requests in flight at once

CreateApiOwned_true == TRUE

\* createApi(): owned: false
CreateApiOwned == FALSE

\* createApi(controller): const state, with no request in flight
CreateApi(ctl) ==
    /\ external = ctl
    /\ apiController = ctl
    /\ owned = CreateApiOwned
    /\ initLock = FALSE
    /\ ctlStatus = [c \in Ctls |-> IF c = ctl THEN "running" ELSE "none"]
    /\ reqPc = [s \in ReqSlots |-> "idle"]
    /\ reqCtl = [s \in ReqSlots |-> NoCtl]
    /\ reqValid = [s \in ReqSlots |-> TRUE]
    /\ nReqs = 0

\* ------------------------------------------------------------ REST routes
\* A request value is named by a string; Spell gives its characters.
Letters == {"a", "b", "c", "e", "t", "w"}
Digits == {"1", "2", "7"}

Spell(v) ==
    CASE v = "w1" -> <<"w", "1">>
      [] v = "w2" -> <<"w", "2">>
      [] v = "1" -> <<"1">>
      [] v = "a_b-7" -> <<"a", "_", "b", "-", "7">>
      [] v = "abc" -> <<"a", "b", "c">>
      [] v = "../etc" -> <<".", ".", "/", "e", "t", "c">>
      [] v = "a x 65" -> [i \in 1..65 |-> "a"]
      [] OTHER -> <<>>

SafeNameMax == 64

SAFE_NAME_RE_anylength(v) ==
    LET chars == Spell(v)
    IN \A i \in 1..Len(chars) : chars[i] \in Letters \cup Digits \cup {"_", "-"}

\* SAFE_NAME_RE.test(value): /^[a-zA-Z0-9_-]{1,64}$/
SAFE_NAME_RE(v) ==
    LET chars == Spell(v)
    IN /\ Len(chars) \in 1..SafeNameMax
       /\ \A i \in 1..Len(chars) : chars[i] \in Letters \cup Digits \cup {"_", "-"}

NoError3 == [name |-> "", field |-> "", message |-> ""]

\* validateName(value, field): the error it throws, if any
ValidateName(v, field) ==
    IF SAFE_NAME_RE(v) THEN NoError3
    ELSE [name |-> "ValidationError", field |-> field,
          message |-> "must be 1-64 alphanumeric characters, hyphens, or underscores"]

\* getController(state): the error it throws, if any
GetController ==
    IF apiController = NoCtl
    THEN [name |-> "Error", field |-> "",
          message |-> "No active session. Call POST /session/init first."]
    ELSE NoError3

\* an error thrown by the controller or one of its parts
BackendError == [name |-> "Error", field |-> "", message |-> "ENOENT"]

OnError_500(err) == [status |-> "500", error |-> err.message, err |-> err]

\* app.onError(): 400 for a ValidationError, 500 for the rest, with err.message
OnError(err) ==
    [status |-> IF err.name = "ValidationError" THEN "400" ELSE "500",
     error |-> err.message, err |-> err]

\* c.json(body, status)
Json(status, error) == [status |-> status, error |-> error, err |-> NoError3]

\* await <backend call>: the call is made; it throws or goes on
Backend(call, fails, then) ==
    IF fails THEN [r |-> OnError(BackendError), ops |-> {call}]
    ELSE [r |-> then.r, ops |-> {call} \cup then.ops]

Done(status, error) == [r |-> Json(status, error), ops |-> {}]

\* tasks.get(id).catch(() => null): the call is made; not found gives 404
TaskLookup(found, then) ==
    IF ~found THEN [r |-> Json("404", "not found"), ops |-> {"tasks.get"}]
    ELSE [r |-> then.r, ops |-> {"tasks.get"} \cup then.ops]

\* the handlers of the controller-backed routes: v is the path value, b the
\* body value ("": missing), found: the member or task exists, fails: the
\* controller call throws
Handle(route, v, b, found, fails) ==
    IF GetController # NoError3 THEN [r |-> OnError(GetController), ops |-> {}]
    ELSE CASE route = "GET /actions" ->
                Backend("tasks.list", fails, Done("200", ""))
           [] route = "GET /agents" ->
                Backend("team.getConfig", fails, Done("200", ""))
           [] route = "POST /agents" ->
                IF b = "" THEN Done("400", "name is required")
                ELSE LET err == ValidateName(b, "name")
                     IN IF err # NoError3 THEN [r |-> OnError(err), ops |-> {}]
                        ELSE [r |-> Backend("spawnAgent", fails, Done("201", "")).r,
                              ops |-> {"registerAgentType", "spawnAgent"}]
           [] route = "GET /agents/:name" ->
                Backend("team.getConfig", fails,
                        IF found THEN Done("200", "") ELSE Done("404", "not found"))
           [] route = "POST /agents/:name/messages" ->
                IF b = "" THEN Done("400", "message is required")
                ELSE Backend("send", fails, Done("200", ""))
           [] route = "POST /agents/:name/kill" ->
                Backend("killAgent", fails, Done("200", ""))
           [] route = "POST /agents/:name/shutdown" ->
                Backend("sendShutdownRequest", fails, Done("200", ""))
           [] route = "POST /agents/:name/approve-plan" ->
                IF b = "" THEN Done("400", "requestId is required")
                ELSE Backend("sendPlanApproval", fails,
                             [r |-> Json("200", ""), ops |-> {"resolveApproval"}])
           [] route = "POST /agents/:name/approve-permission" ->
                IF b = "" THEN Done("400", "requestId is required")
                ELSE Backend("sendPermissionResponse", fails,
                             [r |-> Json("200", ""), ops |-> {"resolveApproval"}])
           [] route = "POST /broadcast" ->
                IF b = "" THEN Done("400", "message is required")
                ELSE Backend("broadcast", fails, Done("200", ""))
           [] route = "GET /tasks" ->
                Backend("tasks.list", fails, Done("200", ""))
           [] route = "GET /tasks/:id" ->
                TaskLookup(found, Done("200", ""))
           [] route = "PATCH /tasks/:id" ->
                IF found THEN [r |-> Json("200", ""), ops |-> {"tasks.update"}]
                ELSE [r |-> Json("404", "not found"), ops |-> {"tasks.update"}]
           [] route = "DELETE /tasks/:id" ->
                TaskLookup(found, Backend("tasks.delete", fails, Done("200", "")))
           [] route = "POST /tasks/:id/assign" ->
                IF b = "" THEN Done("400", "agent is required")
                ELSE TaskLookup(found, Backend("assignTask", fails, Done("200", "")))

\* the routes with a :name or :id path segment
NameRoutes ==
    {"GET /agents/:name", "POST /agents/:name/messages", "POST /agents/:name/kill",
     "POST /agents/:name/shutdown", "POST /agents/:name/approve-plan",
     "POST /agents/:name/approve-permission"}

IdRoutes ==
    {"GET /tasks/:id", "PATCH /tasks/:id", "DELETE /tasks/:id", "POST /tasks/:id/assign"}

\* the routes without one
PlainRoutes == {"GET /actions", "GET /agents", "POST /agents", "POST /broadcast", "GET /tasks"}

Routes == NameRoutes \cup IdRoutes \cup PlainRoutes

\* what requests carry in a :name segment or as a name in the body
NameInputs == Agents \cup {"a_b-7", "../etc", "a x 65"}

\* what requests carry in an :id segment
IdInputs == {"1", "abc", "../etc"}

NoValue == "-"

\* no route request yet
NoRoute ==
    /\ routeVal = <<NoValue, NoValue>>
    /\ routeOps = {}
    /\ resp = Json("", "")

MaxListed == 2

TaskStatuses == {"pending", "in_progress", "completed"}

\* the task lists tasks.list() may return: ids in order, any owner and status
TaskLists ==
    UNION {[1..n -> [owner : {"", "w1"}, status : TaskStatuses]] : n \in 0..MaxListed}

ListTasks(files) ==
    [i \in 1..Len(files) |->
        [id |-> i, owner |-> files[i].owner, status |-> files[i].status]]

UnassignedTasks_all(tasks) ==
    [i \in 1..Len(tasks) |->
        [id |-> tasks[i].id, status |-> tasks[i].status,
         action |-> <<"POST /tasks/", tasks[i].id, "/assign">>]]

\* tasks.filter((t) => !t.owner && t.status !== "completed").map(...)
UnassignedTasks(tasks) ==
    LET open == SelectSeq(tasks, LAMBDA t : t.owner = "" /\ t.status # "completed")
    IN [i \in 1..Len(open) |->
           [id |-> open[i].id, status |-> open[i].status,
            action |-> <<"POST /tasks/", open[i].id, "/assign">>]]

\* the body GET /actions answers with
GetActions(tasks) ==
    LET pendingApprovals == MapValues(approvals)
        idle == MapValues(idleAgents)
        unassignedTasks == UnassignedTasks(tasks)
    IN [pending |-> Len(pendingApprovals) + Len(unassignedTasks) + Len(idle),
        approvals |-> pendingApprovals,
        unassignedTasks |-> unassignedTasks,
        idleAgents |-> idle]

NoBody == [pending |-> 0, approvals |-> <<>>, unassignedTasks |-> <<>>,
           idleAgents |-> <<>>]

NoActions ==
    /\ listed = <<>>
    /\ actions = NoBody

\* the state of what the later sections add, where they are not at work
\* the poller with no cycle in flight and nothing to read
NoPoll ==
    /\ pollBusy = 0
    /\ pollGot = 0
    /\ pollUnread = 0
    /\ pollOut = 0
    /\ nTicks = 0

\* no killAgent() has had its kill() settle
NoKill == killRes = [n \in Agents |-> ""]

\* ------------------------------------------------- protocol envelopes
\* JavaScript values: strings, booleans and undefined
Str(s) == [t |-> "string", s |-> s]
Bool(b) == [t |-> "boolean", s |-> IF b THEN "true" ELSE "false"]
Undefined == [t |-> "undefined", s |-> ""]

\* an object literal: its properties in order
Prop(k, v) == [k |-> k, v |-> v]

\* obj[k]
Field(obj, k) ==
    IF \E i \in 1..Len(obj) : obj[i].k = k
    THEN obj[CHOOSE i \in 1..Len(obj) : obj[i].k = k].v
    ELSE Undefined

\* new Date().toISOString()
IsoNow == Str("2026-01-01T00:00:00.000Z")

\* `shutdown-${Date.now()}@${agentName}`
ShutdownRequestId(agent) ==
    CASE agent = "w1" -> "shutdown-0@w1"
      [] agent = "w2" -> "shutdown-0@w2"
      [] OTHER -> "shutdown-0@"

\* the object sendShutdownRequest() hands to JSON.stringify
ShutdownRequestEnvelope(agent) ==
    <<Prop("type", Str("shutdown_request")),
      Prop("requestId", Str(ShutdownRequestId(agent))),
      Prop("from", Str("controller")),
      Prop("reason", Str("Controller shutdown requested")),
      Prop("timestamp", IsoNow)>>

\* the object sendPlanApproval() hands to JSON.stringify
PlanApprovalEnvelope(requestId, approve, feedback) ==
    <<Prop("type", Str("plan_approval_response")),
      Prop("requestId", Str(requestId)),
      Prop("from", Str("controller")),
      Prop("approved", Bool(approve)),
      Prop("feedback", feedback),
      Prop("timestamp", IsoNow)>>

\* the object sendPermissionResponse() hands to JSON.stringify
PermissionEnvelope(requestId, approve) ==
    <<Prop("type", Str("permission_response")),
      Prop("requestId", Str(requestId)),
      Prop("from", Str("controller")),
      Prop("approved", Bool(approve)),
      Prop("timestamp", IsoNow)>>

\* the object createTask() and assignTask() hand to JSON.stringify
TaskAssignmentEnvelope(taskId, subject, description) ==
    <<Prop("type", Str("task_assignment")),
      Prop("taskId", Str(taskId)),
      Prop("subject", Str(subject)),
      Prop("description", Str(description)),
      Prop("assignedBy", Str("controller")),
      Prop("timestamp", IsoNow)>>

JsonStringify_quoted(obj) ==
    LET kept == SelectSeq(obj, LAMBDA p : p.v.t # "undefined")
    IN [json |-> TRUE,
        type |-> Field(kept, "type").s,
        raw |-> "",
        body |-> [i \in 1..Len(kept) |->
                    [k |-> kept[i].k, quoted |-> TRUE, s |-> kept[i].v.s]]]

\* JSON.stringify(obj): a property whose value is undefined is left out, a
\* string is written in quotes, a boolean as the literal true or false
JsonStringify(obj) ==
    LET kept == SelectSeq(obj, LAMBDA p : p.v.t # "undefined")
    IN [json |-> TRUE,
        type |-> IF Field(kept, "type").t = "string" THEN Field(kept, "type").s
                 ELSE "",
        raw |-> "",
        body |-> [i \in 1..Len(kept) |->
                    [k |-> kept[i].k, quoted |-> kept[i].v.t = "string",
                     s |-> kept[i].v.s]]]

\* a message text that is no JSON
PlainMessage(msg) == [json |-> FALSE, type |-> "", raw |-> msg, body |-> <<>>]

\* JSON.parse(text) of a text that is JSON
JsonParse(text) ==
    [i \in 1..Len(text.body) |->
        Prop(text.body[i].k,
             IF text.body[i].quoted THEN Str(text.body[i].s)
             ELSE IF text.body[i].s \in {"true", "false"}
                  THEN Bool(text.body[i].s = "true")
                  ELSE Undefined)]

\* parseMessage() with the fields of the variant it returns
Classify(m) ==
    LET type == ParseMessage(m).type
        o == IF type = "plain_text" THEN <<>> ELSE JsonParse(m.text)
    IN [type |-> type,
        requestId |-> Field(o, "requestId"),
        approved |-> Field(o, "approved"),
        feedback |-> Field(o, "feedback"),
        taskId |-> Field(o, "taskId"),
        subject |-> Field(o, "subject"),
        description |-> Field(o, "description")]

ProtocolOps ==
    {"sendShutdownRequest", "sendPlanApproval", "sendPermissionResponse",
     "createTask", "assignTask"}

\* the envelope each operation builds from its arguments
EnvelopeOf(a) ==
    CASE a.op = "sendShutdownRequest" -> ShutdownRequestEnvelope(a.agent)
      [] a.op = "sendPlanApproval" ->
           PlanApprovalEnvelope(a.requestId, a.approve, a.feedback)
      [] a.op = "sendPermissionResponse" -> PermissionEnvelope(a.requestId, a.approve)
      [] OTHER -> TaskAssignmentEnvelope(a.taskId, a.subject, a.description)

NoArgs ==
    [op |-> "", agent |-> "", requestId |-> "", approve |-> FALSE,
     feedback |-> Undefined, taskId |-> "", subject |-> "", description |-> ""]

NoRead ==
    [type |-> "", requestId |-> Undefined, approved |-> Undefined,
     feedback |-> Undefined, taskId |-> Undefined, subject |-> Undefined,
     description |-> Undefined]

\* the arguments the protocol sends are called with
EnvelopeArgs ==
    {[op |-> "sendShutdownRequest", agent |-> n, requestId |-> "", approve |-> FALSE,
      feedback |-> Undefined, taskId |-> "", subject |-> "", description |-> ""] :
        n \in Agents}
    \cup {[op |-> "sendPlanApproval", agent |-> n, requestId |-> r, approve |-> b,
           feedback |-> f, taskId |-> "", subject |-> "", description |-> ""] :
             n \in Agents, r \in RequestIds, b \in BOOLEAN, f \in {Undefined, Str("LGTM")}}
    \cup {[op |-> "sendPermissionResponse", agent |-> n, requestId |-> r,
           approve |-> b, feedback |-> Undefined, taskId |-> "", subject |-> "",
           description |-> ""] : n \in Agents, r \in RequestIds, b \in BOOLEAN}
    \cup {[op |-> o, agent |-> n, requestId |-> "", approve |-> FALSE,
           feedback |-> Undefined, taskId |-> id, subject |-> subj,
           description |-> d] :
             o \in {"createTask", "assignTask"}, n \in Agents, id \in {"1", "2"},
             subj \in Subjects, d \in {"", "Do it"}}

NoEnvelope ==
    /\ envArgs = NoArgs
    /\ envText = PlainMessage("")
    /\ envRead = NoRead

\* no messaging call made
NoMail ==
    /\ mailPending = <<>>
    /\ mailAccepted = [n \in Agents \cup {Controller} |-> 0]
    /\ mailOverlapped = FALSE
    /\ nSends = 0
    /\ bcPc = "idle"
    /\ bcMsg = ""
    /\ bcMembers = {}
    /\ bcLeft = 0

\* no batch handed to handlePollEvents()
NoEvents ==
    /\ polled = <<>>
    /\ handled = FALSE
    /\ emitted = <<>>

\* a controller made with no env option, and no spawnAgent() merge yet
NoMerge ==
    /\ defaultEnv = <<>>
    /\ optsEnv = [defined |-> FALSE, map |-> <<>>]
    /\ spawnEnv = [defined |-> FALSE, map |-> <<>>]

NoTail == NoEvents /\ NoMerge

NoneYet == NoRoute /\ NoActions /\ NoPoll /\ NoKill /\ NoEnvelope /\ NoMail /\ NoTail

\* no unread batch at hand
NoBatch ==
    /\ batch = <<>>
    /\ picked = <<>>

Init == Fresh /\ Idle /\ NoBatch /\ NewTracker /\ CreateApi(NoCtl) /\ NoneYet

InitStarted == Started /\ Idle /\ NoBatch /\ NewTracker /\ CreateApi(NoCtl) /\ NoneYet

InitInFlight == \E c \in InitSlots : initPc[c] # "idle"

\* ---- init() -----------------------------------------------------------
\* init() up to its first await.  Lifecycle calls are serialised against
\* shutdown() (as the API's initLock does); two init() calls may overlap.
InitCall(c) ==
    /\ initPc[c] = "idle"
    /\ shutPc = "idle"
    /\ nInits < MaxInits
    /\ nInits' = nInits + 1
    /\ IF InitDone(c)
       THEN /\ last' = Step("init", "", "return")
            /\ UNCHANGED initPc
       ELSE /\ initPc' = [initPc EXCEPT ![c] = "create"]
            /\ last' = Quiet
    /\ UNCHANGED <<ctlVars, procVars, creates, ledgerInits, pollerStarts,
                   shutVars, callVars>>
    /\ UNCHANGED restVars

\* await this.team.create({cwd}) settles: a rejection ends init()
InitCreated(c) ==
    /\ initPc[c] = "create"
    /\ LET r == TeamCreate(team, teamName) IN
       IF r.ok
       THEN /\ team' = r.team
            /\ creates' = creates + 1
            /\ initPc' = [initPc EXCEPT ![c] = "tasks"]
            /\ last' = Quiet
       ELSE /\ initPc' = [initPc EXCEPT ![c] = "idle"]
            /\ last' = Step("init", "", "threw")
            /\ UNCHANGED <<team, creates>>
    /\ UNCHANGED <<teamName, initialized, pollerRunning, inbox, procVars, nInits,
                   ledgerInits, pollerStarts, shutVars, callVars>>
    /\ UNCHANGED restVars

\* await this.tasks.init() settles; poller.start(); initialized = true; return
InitFinish(c) ==
    /\ initPc[c] = "tasks"
    /\ ledgerInits' = ledgerInits + 1
    /\ pollerRunning' = TRUE
    /\ pollerStarts' = pollerStarts + 1
    /\ initialized' = TRUE
    /\ initPc' = [initPc EXCEPT ![c] = "idle"]
    /\ last' = Step("init", "", "return")
    /\ UNCHANGED <<teamName, team, inbox, procVars, nInits, creates, shutVars,
                   callVars>>
    /\ UNCHANGED restVars

\* ---- spawnAgent(opts) -------------------------------------------------
\* spawnAgent() up to await this.team.addMember(member)
SpawnAgentCall(n) ==
    /\ pending[n] < MaxPending
    /\ IF EnsureInitialized(initialized)
       THEN /\ pending' = [pending EXCEPT ![n] = @ + 1]
            /\ last' = Quiet
       ELSE /\ last' = Quiet
            /\ UNCHANGED pending
    /\ UNCHANGED <<ctlVars, procVars, initVars, shutVars, killPc, killPid, nKills>>
    /\ UNCHANGED restVars

\* addMember() settles; processes.spawn(); emit agent:spawned; onExit(); return
SpawnAgentResume(n) ==
    /\ pending[n] > 0
    /\ pending' = [pending EXCEPT ![n] = @ - 1]
    /\ LET r == TeamAddMember(team, n) IN
       IF ~r.ok
       THEN /\ last' = Quiet
            /\ UNCHANGED <<team, procVars>>
       ELSE /\ team' = r.team
            /\ IF PM_SpawnRejects(tracked, procs, n)
               THEN /\ last' = Step("spawnAgent", n, "rejected")
                    /\ UNCHANGED procVars
               ELSE /\ Len(pidName) < MaxSpawns
                    /\ LET pid == Len(pidName) + 1 IN
                       /\ pidName' = Append(pidName, n)
                       /\ procs' = procs \cup {pid}
                       /\ tracked' = [tracked EXCEPT ![n] = pid]
                       /\ events' = EmitSpawned(events, n)
                       /\ armed' = ArmExit(armed, pid)
                    /\ last' = Step("spawnAgent", n, "return")
                    /\ UNCHANGED signalled
    /\ UNCHANGED <<teamName, initialized, pollerRunning, inbox, initVars,
                   shutVars, killPc, killPid, nKills>>
    /\ UNCHANGED restVars

\* ---- the agent process ------------------------------------------------
\* Process pid ends, of its own (code) or by the signal it was sent: the
\* supervisor drops it, its exit listeners run, waits on it resolve.
ProcExit(pid, code) ==
    /\ pid \in procs
    /\ procs' = procs \ {pid}
    /\ tracked' = [n \in Agents |-> IF tracked[n] = pid THEN 0 ELSE tracked[n]]
    /\ signalled' = signalled \ {pid}
    /\ armed' = armed \ {pid}
    /\ events' = IF pid \in armed
                 THEN EmitExited(events, pidName[pid],
                                 IF pid \in signalled THEN NullCode ELSE code)
                 ELSE events
    /\ shutWait' = shutWait \ {pid}
    /\ last' = Quiet
    /\ UNCHANGED <<ctlVars, pidName, initVars, shutPc, nShutdowns, shutSnap,
                   shutTodo, shutSent, shutExpired, shutKill, callVars>>
    /\ UNCHANGED restVars

\* ---- killAgent(name) --------------------------------------------------
\* killAgent() up to await this.processes.kill(name): the signal is sent
KillAgentCall(n) ==
    /\ killPc[n] = "idle"
    /\ nKills < MaxKills
    /\ nKills' = nKills + 1
    /\ IF PM_IsRunning(tracked, procs, n)
       THEN /\ signalled' = signalled \cup {tracked[n]}
            /\ killPid' = [killPid EXCEPT ![n] = tracked[n]]
            /\ killPc' = [killPc EXCEPT ![n] = "killing"]
       ELSE /\ killPc' = [killPc EXCEPT ![n] = "removing"]
            /\ UNCHANGED <<signalled, killPid>>
    /\ last' = Quiet
    /\ UNCHANGED <<ctlVars, procs, pidName, tracked, armed, events, initVars,
                   shutVars, pending>>
    /\ UNCHANGED restVars

\* kill() resolves once the process is gone; team.removeMember(name) is called
KillAgentKilled(n) ==
    /\ killPc[n] = "killing"
    /\ killPid[n] \notin procs
    /\ killPc' = [killPc EXCEPT ![n] = "removing"]
    /\ killPid' = [killPid EXCEPT ![n] = 0]
    /\ last' = Quiet
    /\ UNCHANGED <<ctlVars, procVars, initVars, shutVars, pending, nKills>>
    /\ UNCHANGED restVars

\* removeMember() settles; killAgent() returns (or rejects)
KillAgentRemoved(n) ==
    /\ killPc[n] = "removing"
    /\ killPc' = [killPc EXCEPT ![n] = "idle"]
    /\ LET r == TeamRemoveMember(team, n) IN
       /\ team' = r.team
       /\ last' = IF r.ok THEN Step("killAgent", n, "return") ELSE Quiet
    /\ UNCHANGED <<teamName, initialized, pollerRunning, inbox, procVars,
                   initVars, shutVars, killPid, pending, nKills>>
    /\ UNCHANGED restVars

\* ---- shutdown() -------------------------------------------------------
ShutdownCatches_none == FALSE

\* shutdown(): try { await this.sendShutdownRequest(name); ... } catch { }
ShutdownCatches == TRUE

\* processes.killAll(): every tracked running process
KillAllTargets(trk, live) == {trk[n] : n \in PM_RunningAgents(trk, live)}

\* shutdown() up to the for loop: const running = processes.runningAgents()
ShutdownCall ==
    /\ shutPc = "idle"
    /\ ~InitInFlight
    /\ nShutdowns < MaxShutdowns
    /\ nShutdowns' = nShutdowns + 1
    /\ shutPc' = "sending"
    /\ shutSnap' = RunningAgents
    /\ shutTodo' = RunningAgents
    /\ shutSent' = {}
    /\ shutWait' = {}
    /\ shutExpired' = {}
    /\ shutKill' = {}
    /\ last' = Quiet
    /\ UNCHANGED <<ctlVars, procVars, initVars, callVars>>
    /\ UNCHANGED restVars

\* One turn of the for loop, taken when await sendShutdownRequest(name)
\* settles: send() throws when not initialized, writeInbox() may fail (ok);
\* on success the wait promise is made (resolved at once without a process).
ShutdownSend(n, ok) ==
    /\ shutPc = "sending"
    /\ n \in shutTodo
    /\ IF EnsureInitialized(initialized) /\ ok
       THEN /\ inbox' = WriteInbox(inbox, n, ShutdownRequestText(n))
            /\ shutSent' = shutSent \cup {n}
            /\ shutWait' = IF tracked[n] # 0 THEN shutWait \cup {tracked[n]}
                           ELSE shutWait
            /\ shutTodo' = shutTodo \ {n}
            /\ last' = Quiet
            /\ UNCHANGED shutPc
       ELSE /\ IF ShutdownCatches
               THEN /\ shutTodo' = shutTodo \ {n}
                    /\ last' = Quiet
                    /\ UNCHANGED shutPc
               ELSE /\ shutTodo' = {}
                    /\ shutPc' = "idle"
                    /\ last' = Step("shutdown", n, "threw")
            /\ UNCHANGED <<inbox, shutSent, shutWait>>
    /\ UNCHANGED <<teamName, initialized, team, pollerRunning, procVars, initVars,
                   nShutdowns, shutSnap, shutExpired, shutKill, callVars>>
    /\ UNCHANGED restVars

\* setTimeout(() => resolve(), 10_000) fires for a process that has not exited
ShutdownTimer(pid) ==
    /\ pid \in shutWait
    /\ shutWait' = shutWait \ {pid}
    /\ shutExpired' = shutExpired \cup {pid}
    /\ last' = Quiet
    /\ UNCHANGED <<ctlVars, procVars, initVars, shutPc, nShutdowns, shutSnap,
                   shutTodo, shutSent, shutKill, callVars>>
    /\ UNCHANGED restVars

\* await Promise.all(shutdownPromises) settles; processes.killAll() is called
ShutdownKillAll ==
    /\ shutPc = "sending"
    /\ shutTodo = {}
    /\ shutWait = {}
    /\ shutKill' = KillAllTargets(tracked, procs)
    /\ signalled' = signalled \cup KillAllTargets(tracked, procs)
    /\ shutPc' = "killing"
    /\ last' = Step("shutdown", "", "killAll")
    /\ UNCHANGED <<ctlVars, procs, pidName, tracked, armed, events, initVars,
                   nShutdowns, shutSnap, shutTodo, shutSent, shutWait,
                   shutExpired, callVars>>
    /\ UNCHANGED restVars

\* killAll() resolves when all have exited; poller.stop(); team.destroy() is called
ShutdownKilled ==
    /\ shutPc = "killing"
    /\ shutKill \cap procs = {}
    /\ pollerRunning' = FALSE
    /\ pollerStarts' = 0
    /\ shutPc' = "destroying"
    /\ last' = Step("shutdown", "", "pollerStop")
    /\ UNCHANGED <<teamName, initialized, team, inbox, procVars, initPc, nInits,
                   creates, ledgerInits, nShutdowns, shutSnap, shutTodo, shutSent,
                   shutWait, shutExpired, shutKill, callVars>>
    /\ UNCHANGED restVars

\* what the returning shutdown() went through: "forced" when a send had
\* failed and a timer had fired, "" otherwise
ShutdownHow ==
    IF shutSnap \ shutSent # {} /\ shutExpired # {} THEN "forced" ELSE ""

\* destroy() settles (the mailboxes with their read marks and the task
\* records are files of the namespace); initialized = false; shutdown() returns
ShutdownDestroyed ==
    /\ shutPc = "destroying"
    /\ team' = ShutdownTeam(team)
    /\ inbox' = IF team'.exists THEN inbox ELSE EmptyInbox
    /\ initialized' = FALSE
    /\ creates' = 0
    /\ ledgerInits' = 0
    /\ shutPc' = "idle"
    /\ shutSnap' = {}
    /\ shutSent' = {}
    /\ shutExpired' = {}
    /\ shutKill' = {}
    /\ last' = Step("shutdown", ShutdownHow, "return")
    /\ UNCHANGED <<teamName, pollerRunning, procVars, initPc, nInits,
                   pollerStarts, nShutdowns, shutTodo, shutWait, callVars>>
    /\ ledger' = IF team'.exists THEN ledger ELSE EmptyLedger
    /\ deleted' = IF team'.exists THEN deleted ELSE deleted \cup TaskList(ledger)
    /\ cursor' = IF team'.exists THEN cursor ELSE 0
    /\ UNCHANGED <<nextId, issued, subjOf, ctPc, ctArg, ctId, atPc, atArg,
                   nAssigns, lastId, nMsgs, recvVars>>
    /\ UNCHANGED moreVars

\* ---- the lifecycle specification --------------------------------------
ShutdownStep ==
    \/ \E n \in Agents, ok \in BOOLEAN : ShutdownSend(n, ok)
    \/ \E pid \in 1..MaxSpawns : ShutdownTimer(pid)
    \/ ShutdownKillAll
    \/ ShutdownKilled
    \/ ShutdownDestroyed

\* a process that was sent a termination signal ends
ForcedExit == \E pid \in signalled : ProcExit(pid, NullCode)

Next ==
    \/ \E c \in InitSlots : InitCall(c)
    \/ \E c \in InitSlots : InitCreated(c)
    \/ \E c \in InitSlots : InitFinish(c)
    \/ \E n \in Agents : SpawnAgentCall(n)
    \/ \E n \in Agents : SpawnAgentResume(n)
    \/ \E pid \in procs, code \in ExitCodes : ProcExit(pid, code)
    \/ \E n \in Agents : KillAgentCall(n)
    \/ \E n \in Agents : KillAgentKilled(n)
    \/ \E n \in Agents : KillAgentRemoved(n)
    \/ ShutdownCall
    \/ ShutdownStep

Spec == Init /\ [][Next]_vars

\* The event loop runs every continuation and timer that is due, and the
\* operating system ends a process it was told to end.
FairSpec == Spec /\ WF_vars(ShutdownStep) /\ WF_vars(ForcedExit)

\* ======================================================================
\* Tasks: createTask(), assignTask(), tasks.delete()
\* ======================================================================
\* createTask(task) up to await this.tasks.create(task)
CreateTaskCall(c, subj, owner) ==
    /\ ctPc[c] = "idle"
    /\ \A d \in CreateSlots : d < c => ctPc[d] # "idle"
    /\ IF EnsureInitialized(initialized)
       THEN /\ ctPc' = [ctPc EXCEPT ![c] = "create"]
            /\ ctArg' = [ctArg EXCEPT ![c] = [subject |-> subj, owner |-> owner]]
       ELSE UNCHANGED <<ctPc, ctArg>>
    /\ last' = Quiet
    /\ lastId' = 0
    /\ UNCHANGED <<lifeVars, ledgerVars, ctId, atPc, atArg, nAssigns, cursor,
                   nMsgs, recvVars>>
    /\ UNCHANGED moreVars

\* tasks.create() settles with the new id; without an owner createTask()
\* returns it, with one this.tasks.get(taskId) is called
CreateTaskCreated(c) ==
    /\ ctPc[c] = "create"
    /\ LET id == TaskNextId(ledger, nextId) IN
       /\ id <= MaxTasks
       /\ ledger' = TaskCreate(ledger, id, ctArg[c].subject, ctArg[c].owner)
       /\ nextId' = nextId + 1
       /\ issued' = Append(issued, id)
       /\ subjOf' = [subjOf EXCEPT ![id] = ctArg[c].subject]
       /\ IF OwnerSet(ctArg[c].owner)
          THEN /\ ctPc' = [ctPc EXCEPT ![c] = "get"]
               /\ ctId' = [ctId EXCEPT ![c] = id]
               /\ last' = Quiet
               /\ lastId' = 0
               /\ UNCHANGED ctArg
          ELSE /\ ctPc' = [ctPc EXCEPT ![c] = "idle"]
               /\ ctArg' = [ctArg EXCEPT ![c] = NoArg]
               /\ last' = Step("createTask", ctArg[c].owner, "return")
               /\ lastId' = id
               /\ UNCHANGED ctId
    /\ UNCHANGED <<lifeVars, deleted, atPc, atArg, nAssigns, cursor, nMsgs,
                   recvVars>>
    /\ UNCHANGED moreVars

\* tasks.get(taskId) settles: fullTask, or not-found ends createTask();
\* this.send(task.owner, assignmentMsg) is called
CreateTaskGot(c) ==
    /\ ctPc[c] = "get"
    /\ LET r == TaskGet(ledger, ctId[c]) IN
       IF r.ok
       THEN /\ ctPc' = [ctPc EXCEPT ![c] = "send"]
            /\ ctArg' = [ctArg EXCEPT ![c].subject = r.task.subject]
            /\ UNCHANGED ctId
       ELSE /\ ctPc' = [ctPc EXCEPT ![c] = "idle"]
            /\ ctArg' = [ctArg EXCEPT ![c] = NoArg]
            /\ ctId' = [ctId EXCEPT ![c] = 0]
    /\ last' = Quiet
    /\ lastId' = 0
    /\ UNCHANGED <<lifeVars, ledgerVars, atPc, atArg, nAssigns, cursor, nMsgs,
                   recvVars>>
    /\ UNCHANGED moreVars

\* send() settles: it throws when not initialized, writeInbox() may fail
\* (ok); else the envelope is in the owner's mailbox and createTask() returns
CreateTaskSent(c, ok) ==
    /\ ctPc[c] = "send"
    /\ IF EnsureInitialized(initialized) /\ ok
       THEN /\ inbox' = WriteInbox(inbox, ctArg[c].owner,
                                   TaskAssignmentText(ctId[c], ctArg[c].subject))
            /\ last' = Step("createTask", ctArg[c].owner, "return")
            /\ lastId' = ctId[c]
       ELSE /\ last' = Quiet
            /\ lastId' = 0
            /\ UNCHANGED inbox
    /\ ctPc' = [ctPc EXCEPT ![c] = "idle"]
    /\ ctArg' = [ctArg EXCEPT ![c] = NoArg]
    /\ ctId' = [ctId EXCEPT ![c] = 0]
    /\ UNCHANGED <<teamName, initialized, team, pollerRunning, procVars,
                   initVars, shutVars, callVars, ledgerVars, atPc, atArg,
                   nAssigns, cursor, nMsgs, recvVars>>
    /\ UNCHANGED moreVars

\* assignTask(taskId, agentName) up to the point where
\* tasks.update(taskId, {owner}) settles: not-found ends the call
AssignTaskCall(id, w) ==
    /\ atPc = "idle"
    /\ nAssigns < MaxAssigns
    /\ nAssigns' = nAssigns + 1
    /\ LET r == TaskUpdateOwner(ledger, id, w) IN
       IF r.ok
       THEN /\ ledger' = r.ledger
            /\ atPc' = "send"
            /\ atArg' = [id |-> id, to |-> w, subject |-> r.task.subject]
       ELSE UNCHANGED <<ledger, atPc, atArg>>
    /\ last' = Quiet
    /\ lastId' = 0
    /\ UNCHANGED <<lifeVars, nextId, issued, deleted, subjOf, ctPc, ctArg, ctId,
                   cursor, nMsgs, recvVars>>
    /\ UNCHANGED moreVars

\* send() settles, as in createTask(); assignTask() returns
AssignTaskSent(ok) ==
    /\ atPc = "send"
    /\ IF EnsureInitialized(initialized) /\ ok
       THEN /\ inbox' = WriteInbox(inbox, atArg.to,
                                   TaskAssignmentText(atArg.id, atArg.subject))
            /\ last' = Step("assignTask", atArg.to, "return")
            /\ lastId' = atArg.id
       ELSE /\ last' = Quiet
            /\ lastId' = 0
            /\ UNCHANGED inbox
    /\ atPc' = "idle"
    /\ atArg' = NoAssign
    /\ UNCHANGED <<teamName, initialized, team, pollerRunning, procVars,
                   initVars, shutVars, callVars, ledgerVars, ctPc, ctArg, ctId,
                   nAssigns, cursor, nMsgs, recvVars>>
    /\ UNCHANGED moreVars

\* controller.tasks.delete(id) on an existing task
DeleteTask(id) ==
    /\ ledger[id].exists
    /\ ledger' = TaskDelete(ledger, id)
    /\ deleted' = deleted \cup {id}
    /\ last' = Quiet
    /\ lastId' = 0
    /\ UNCHANGED <<lifeVars, nextId, issued, subjOf, ctPc, ctArg, ctId, atPc,
                   atArg, nAssigns, cursor, nMsgs, recvVars>>
    /\ UNCHANGED moreVars

\* the task operations and shutdown() of an initialized controller without
\* agent processes
NextTasks ==
    \/ \E c \in CreateSlots, subj \in Subjects, owner \in Owners :
          CreateTaskCall(c, subj, owner)
    \/ \E c \in CreateSlots : CreateTaskCreated(c)
    \/ \E c \in CreateSlots : CreateTaskGot(c)
    \/ \E c \in CreateSlots, ok \in BOOLEAN : CreateTaskSent(c, ok)
    \/ \E id \in TaskIds, w \in Agents : AssignTaskCall(id, w)
    \/ \E ok \in BOOLEAN : AssignTaskSent(ok)
    \/ \E id \in TaskIds : DeleteTask(id)
    \/ ShutdownCall
    \/ ShutdownKillAll
    \/ ShutdownKilled
    \/ ShutdownDestroyed

SpecTasks == InitStarted /\ [][NextTasks]_vars

\* ======================================================================
\* Messaging: receive(), the agents' messages, the poller, the clock
\* ======================================================================
\* receive(): throw new Error(`Timeout (${timeout}ms) waiting for ...`)
ReceiveTimeout(name, T) ==
    /\ recvPc' = "idle"
    /\ recvErr' = [timeout |-> T, name |-> name]
    /\ last' = Step("receive", name, "timeout")

\* receive(agentName, {timeout, pollInterval, all}) up to its first await:
\* the deadline is set and the loop condition evaluated
ReceiveCall(name, T, iv, all) ==
    /\ recvPc = "idle"
    /\ now + T <= MaxTime
    /\ recvArg' = [from |-> name, all |-> all, interval |-> iv, timeout |-> T]
    /\ recvDeadline' = now + T
    /\ recvOut' = <<>>
    /\ IF DeadlineOpen(now, now + T)
       THEN /\ recvPc' = "read"
            /\ recvErr' = NoError
            /\ last' = Quiet
       ELSE ReceiveTimeout(name, T)
    /\ UNCHANGED <<lifeVars, taskVars, cursor, nMsgs, now, recvSleep, recvSeen>>
    /\ UNCHANGED moreVars

\* readUnread() settles: receive() returns what qualifies, else sleeps
ReceiveRead ==
    /\ recvPc = "read"
    /\ LET r == ReadUnread(inbox, cursor)
           res == ReceiveResult(r.unread, recvArg.from, recvArg.all)
       IN /\ cursor' = r.cursor
          /\ IF res # <<>>
             THEN /\ recvOut' = res
                  /\ recvPc' = "idle"
                  /\ last' = Step("receive", recvArg.from, "return")
                  /\ UNCHANGED <<recvSleep, recvSeen>>
             ELSE /\ recvPc' = "sleep"
                  /\ recvSleep' = recvArg.interval
                  /\ recvSeen' = r.unread
                  /\ last' = Quiet
                  /\ UNCHANGED recvOut
    /\ UNCHANGED <<lifeVars, taskVars, nMsgs, now, recvArg, recvDeadline, recvErr>>
    /\ UNCHANGED moreVars

\* sleep(interval) settles: the loop condition is evaluated again
ReceiveWake ==
    /\ recvPc = "sleep"
    /\ recvSleep = 0
    /\ recvSeen' = <<>>
    /\ IF DeadlineOpen(now, recvDeadline)
       THEN /\ recvPc' = "read"
            /\ last' = Quiet
            /\ UNCHANGED recvErr
       ELSE ReceiveTimeout(recvArg.from, recvArg.timeout)
    /\ UNCHANGED <<lifeVars, taskVars, cursor, nMsgs, now, recvArg, recvDeadline,
                   recvSleep, recvOut>>
    /\ UNCHANGED moreVars

\* the clock advances by one tick (readings from MaxTime on are not told
\* apart: no deadline lies beyond); a pending sleep comes closer
Tick ==
    /\ now < MaxTime \/ recvSleep > 0
    /\ now' = IF now < MaxTime THEN now + 1 ELSE now
    /\ recvSleep' = IF recvSleep > 0 THEN recvSleep - 1 ELSE 0
    /\ last' = Quiet
    /\ UNCHANGED <<lifeVars, taskVars, cursor, nMsgs, recvPc, recvArg,
                   recvDeadline, recvSeen, recvOut, recvErr>>
    /\ UNCHANGED moreVars

\* agent n appends a message to the controller's mailbox
AgentWrite(n, text) ==
    /\ nMsgs < MaxMsgs
    /\ nMsgs' = nMsgs + 1
    /\ inbox' = [inbox EXCEPT ![Controller] = Append(@, [from |-> n, text |-> text])]
    /\ last' = Quiet
    /\ UNCHANGED <<teamName, initialized, team, pollerRunning, procVars,
                   initVars, shutVars, callVars, taskVars, cursor, recvVars>>
    /\ UNCHANGED moreVars

\* one poll cycle of the running poller reads the controller's unread mail
PollCycle ==
    /\ pollerRunning
    /\ cursor < Len(inbox[Controller])
    /\ cursor' = ReadUnread(inbox, cursor).cursor
    /\ last' = Quiet
    /\ UNCHANGED <<lifeVars, taskVars, nMsgs, recvVars>>
    /\ UNCHANGED moreVars

\* receive() on an initialized controller whose agents write to it, with
\* the poller running until shutdown() stops it
NextRecv ==
    \/ \E name \in Agents, T \in Timeouts, iv \in Intervals, all \in BOOLEAN :
          ReceiveCall(name, T, iv, all)
    \/ ReceiveRead
    \/ ReceiveWake
    \/ Tick
    \/ \E n \in Agents, text \in AgentTexts : AgentWrite(n, text)
    \/ PollCycle
    \/ ShutdownCall
    \/ ShutdownKillAll
    \/ ShutdownKilled
    \/ ShutdownDestroyed

SpecRecv == InitStarted /\ [][NextRecv]_vars

\* The event loop runs receive()'s continuations when they are due, and
\* time passes.
FairSpecRecv ==
    SpecRecv /\ WF_vars(ReceiveRead) /\ WF_vars(ReceiveWake) /\ WF_vars(Tick)

\* ======================================================================
\* One turn of the loops of receive() and receiveAny() on an unread batch
\* ======================================================================
\* the controller holding some unread batch
InitBatch ==
    /\ Started
    /\ Idle
    /\ batch \in Batches
    /\ picked = <<>>
    /\ NewTracker
    /\ CreateApi(NoCtl)
    /\ NoneYet

\* receive(name, {all}): the loop body after readUnread() has settled
ReceiveTurn(name, all) ==
    /\ picked' = ReceiveResult(batch, name, all)
    /\ last' = Step("receive", name, "turn")
    /\ UNCHANGED <<coreVars, batch, trkVars, apiVars, laterVars>>

\* receiveAny(): the loop body after readUnread() has settled
ReceiveAnyTurn ==
    /\ picked' = ReceiveAnyResult(batch)
    /\ last' = Step("receiveAny", "", "turn")
    /\ UNCHANGED <<coreVars, batch, trkVars, apiVars, laterVars>>

NextBatch ==
    \/ \E name \in Agents, all \in BOOLEAN : ReceiveTurn(name, all)
    \/ ReceiveAnyTurn

SpecBatch == InitBatch /\ [][NextBatch]_vars

\* ======================================================================
\* The Action Tracker on the event streams of two controllers
\* ======================================================================
InitTracker == Started /\ Idle /\ NoBatch /\ NewTracker /\ CreateApi(NoCtl) /\ NoneYet

\* attach(controller): what it does to the tracker and the controllers
Attaching(c) ==
    /\ nAttach' = nAttach + 1
    /\ currentController' = c
    /\ listeners' = [i \in 1..Len(TrackedEvents) |->
                        [event |-> TrackedEvents[i], fn |-> nAttach + 1]]
    /\ emitter' = [Detached(emitter) EXCEPT ![c] = @ \o listeners']
    /\ UNCHANGED <<approvals, idleAgents, agentTypes>>

Clearing_keep ==
    UNCHANGED <<emitter, listeners, currentController, approvals, idleAgents,
                agentTypes, nAttach>>

\* clear(): what it does to the tracker and the controllers
Clearing ==
    /\ emitter' = Detached(emitter)
    /\ listeners' = <<>>
    /\ currentController' = NoCtl
    /\ approvals' = <<>>
    /\ idleAgents' = <<>>
    /\ agentTypes' = [n \in Agents |-> ""]
    /\ UNCHANGED nAttach

\* attach(controller)
Attach(c) ==
    /\ nAttach < MaxAttaches
    /\ Attaching(c)
    /\ last' = Step("attach", "", "")
    /\ lastCtl' = c
    /\ UNCHANGED <<coreVars, batchVars, apiVars, laterVars>>

\* detach()
Detach ==
    /\ emitter' = Detached(emitter)
    /\ listeners' = <<>>
    /\ currentController' = NoCtl
    /\ last' = Step("detach", "", "")
    /\ lastCtl' = NoCtl
    /\ UNCHANGED <<approvals, idleAgents, agentTypes, nAttach>>
    /\ UNCHANGED <<coreVars, batchVars, apiVars, laterVars>>

\* clear()
Clear ==
    /\ Clearing
    /\ last' = Step("clear", "", "")
    /\ lastCtl' = NoCtl
    /\ UNCHANGED <<coreVars, batchVars, apiVars, laterVars>>

\* registerAgentType(name, type)
RegisterAgentType(n, t) ==
    /\ agentTypes' = [agentTypes EXCEPT ![n] = t]
    /\ last' = Step("registerAgentType", n, "")
    /\ lastCtl' = NoCtl
    /\ UNCHANGED <<approvals, idleAgents, listeners, currentController, emitter, nAttach>>
    /\ UNCHANGED <<coreVars, batchVars, apiVars, laterVars>>

\* resolveApproval(requestId)
ResolveApproval(r) ==
    /\ approvals' = MapDelete(approvals, r)
    /\ last' = Step("resolveApproval", "", r)
    /\ lastCtl' = NoCtl
    /\ UNCHANGED <<idleAgents, agentTypes, listeners, currentController, emitter, nAttach>>
    /\ UNCHANGED <<coreVars, batchVars, apiVars, laterVars>>

\* controller c emits ev: its listeners run
Emits(c, ev, agent, rid) ==
    /\ LET st == EmitTo(c, ev, agent, rid)
       IN /\ approvals' = st.approvals
          /\ idleAgents' = st.idles
    /\ last' = Step(ev, agent, rid)
    /\ lastCtl' = c
    /\ UNCHANGED <<agentTypes, listeners, currentController, emitter, nAttach>>
    /\ UNCHANGED <<coreVars, batchVars, apiVars, laterVars>>

\* controller c's poller hands one message of an agent to handlePollEvents()
PollEvent(c, n, text) ==
    Emits(c, PollEventName([from |-> n, text |-> text]), n, text.requestId)

\* controller c's spawnAgent(n) emits agent:spawned
AgentSpawned(c, n) == Emits(c, "agent:spawned", n, "")

\* a process of controller c's agent n exits: agent:exited
AgentExited(c, n) == Emits(c, "agent:exited", n, "")

NextTracker ==
    \/ \E c \in Ctls : Attach(c)
    \/ Detach
    \/ Clear
    \/ \E n \in TypedAgents, t \in AgentTypeNames : RegisterAgentType(n, t)
    \/ \E r \in RequestIds : ResolveApproval(r)
    \/ \E c \in Ctls, n \in Agents, text \in TrackerTexts : PollEvent(c, n, text)
    \/ \E c \in Ctls, n \in Agents : AgentSpawned(c, n)
    \/ \E c \in Ctls, n \in Agents : AgentExited(c, n)

SpecTracker == InitTracker /\ [][NextTracker]_vars

\* ======================================================================
\* The controller-backed routes of the REST API
\* ======================================================================
\* what a request to that route may carry in its body field
BodyInputs(route) ==
    CASE route \in {"POST /agents", "POST /tasks/:id/assign"} -> NameInputs \cup {""}
      [] route \in {"POST /agents/:name/approve-plan",
                    "POST /agents/:name/approve-permission"} -> RequestIds \cup {""}
      [] route \in {"POST /agents/:name/messages", "POST /broadcast"} -> {"hi", ""}
      [] OTHER -> {NoValue}

PathInputs(route) ==
    IF route \in NameRoutes THEN NameInputs
    ELSE IF route \in IdRoutes THEN IdInputs
    ELSE {NoValue}

\* Map.set on agentTypes, whose keys are not only the agents of the model
SetAgentType(types, n, t) ==
    [k \in DOMAIN types \cup {n} |-> IF k = n THEN t ELSE types[k]]

\* one request to a controller-backed route, from its arrival to its response
RouteRequest(route, v, b, found, fails) ==
    LET h == Handle(route, v, b, found, fails)
    IN /\ resp' = h.r
       /\ routeOps' = h.ops
       /\ routeVal' = <<v, b>>
       /\ last' = Step(route, "", h.r.status)
       /\ lastCtl' = NoCtl
       /\ agentTypes' = IF "registerAgentType" \in h.ops
                         THEN SetAgentType(agentTypes, b, "general-purpose")
                         ELSE agentTypes
       /\ approvals' = IF "resolveApproval" \in h.ops
                        THEN MapDelete(approvals, b)
                        ELSE approvals
       /\ actions' = IF route = "GET /actions" /\ h.r.status = "200"
                      THEN GetActions(listed)
                      ELSE actions
       /\ UNCHANGED <<idleAgents, listeners, currentController, emitter, nAttach>>
       /\ UNCHANGED <<coreVars, batchVars, apiVars, listed, extraVars>>

NextRoutes ==
    \E route \in Routes, found, fails \in BOOLEAN :
        \E v \in PathInputs(route), b \in BodyInputs(route) :
            RouteRequest(route, v, b, found, fails)


\* the approvals and idle agents a tracker may hold when GET /actions arrives
TrackedApprovals ==
    {<<>>,
     MapSet(<<>>, "r1", [type |-> "plan", agent |-> "w1", requestId |-> "r1"]),
     MapSet(MapSet(<<>>, "r1", [type |-> "plan", agent |-> "w1", requestId |-> "r1"]),
            "r2", [type |-> "permission", agent |-> "w2", requestId |-> "r2"])}

TrackedIdles ==
    {<<>>,
     MapSet(<<>>, "w1", [name |-> "w1", type |-> "unknown"]),
     MapSet(MapSet(<<>>, "w2", [name |-> "w2", type |-> "unknown"]),
            "w1", [name |-> "w1", type |-> "unknown"])}

\* createApi(controller) some events later, with some tasks on file
InitActions ==
    /\ Started
    /\ Idle
    /\ NoBatch
    /\ CreateApi("c1")
    /\ approvals \in TrackedApprovals
    /\ idleAgents \in TrackedIdles
    /\ agentTypes = [n \in Agents |-> ""]
    /\ nAttach = 1
    /\ currentController = "c1"
    /\ listeners = [i \in 1..Len(TrackedEvents) |->
                       [event |-> TrackedEvents[i], fn |-> 1]]
    /\ emitter = [c \in Ctls |-> IF c = "c1" THEN listeners ELSE <<>>]
    /\ lastCtl = NoCtl
    /\ NoRoute /\ NoPoll /\ NoKill /\ NoEnvelope /\ NoMail /\ NoTail
    /\ listed \in {ListTasks(f) : f \in TaskLists}
    /\ actions = NoBody

NextActions ==
    \E fails \in BOOLEAN : RouteRequest("GET /actions", NoValue, NoValue, TRUE, fails)

SpecActions == InitActions /\ [][NextActions]_vars

\* ======================================================================
\* killAgent() with the failures of its two steps
\* ======================================================================
Rejects_never(ok) == FALSE

\* an awaited promise that rejects throws in the caller
Rejects(ok) == ~ok

\* await this.processes.kill(name) settles: it resolves once the process is
\* gone, or rejects; on resolve team.removeMember(name) is called
KillSettled(n, ok) ==
    /\ killPc[n] = "killing"
    /\ ok => killPid[n] \notin procs
    /\ killPid' = [killPid EXCEPT ![n] = 0]
    /\ IF Rejects(ok)
       THEN /\ killPc' = [killPc EXCEPT ![n] = "idle"]
            /\ killRes' = [killRes EXCEPT ![n] = ""]
            /\ last' = Step("killAgent", n, "kill threw")
       ELSE /\ killPc' = [killPc EXCEPT ![n] = "removing"]
            /\ killRes' = [killRes EXCEPT ![n] = IF ok THEN "resolved" ELSE "rejected"]
            /\ last' = Quiet
    /\ UNCHANGED <<ctlVars, procVars, initVars, shutVars, pending, nKills>>
    /\ UNCHANGED <<taskVars, cursor, nMsgs, recvVars, batchVars, trkVars, apiVars,
                   routeVars, actVars, pollVars, envVars, mailVars, tailVars>>

\* await this.team.removeMember(name) settles; killAgent() returns or throws
RemoveSettled(n, ok) ==
    /\ killPc[n] = "removing"
    /\ killPc' = [killPc EXCEPT ![n] = "idle"]
    /\ killRes' = [killRes EXCEPT ![n] = ""]
    /\ LET r == TeamRemoveMember(team, n) IN
       IF Rejects(ok /\ r.ok)
       THEN /\ last' = Step("killAgent", n, "removeMember threw")
            /\ UNCHANGED team
       ELSE /\ team' = r.team
            /\ last' = Step("killAgent", n, "return")
    /\ UNCHANGED <<teamName, initialized, pollerRunning, inbox, procVars,
                   initVars, shutVars, killPid, pending, nKills>>
    /\ UNCHANGED <<taskVars, cursor, nMsgs, recvVars, batchVars, trkVars, apiVars,
                   routeVars, actVars, pollVars, envVars, mailVars, tailVars>>

NextKill ==
    \/ \E n \in Agents : SpawnAgentCall(n)
    \/ \E n \in Agents : SpawnAgentResume(n)
    \/ \E pid \in procs, code \in ExitCodes : ProcExit(pid, code)
    \/ \E n \in Agents : KillAgentCall(n)
    \/ \E n \in Agents, ok \in BOOLEAN : KillSettled(n, ok)
    \/ \E n \in Agents, ok \in BOOLEAN : RemoveSettled(n, ok)

SpecKill == InitStarted /\ [][NextKill]_vars

\* ======================================================================
\* Protocol envelopes written and read back
\* ======================================================================
InitEnvelope ==
    /\ Started
    /\ Idle
    /\ NoBatch
    /\ NewTracker
    /\ CreateApi(NoCtl)
    /\ NoRoute /\ NoActions /\ NoPoll /\ NoKill /\ NoMail /\ NoTail
    /\ envArgs \in EnvelopeArgs
    /\ envText = PlainMessage("")
    /\ envRead = NoRead

\* the operation builds its envelope and hands JSON.stringify of it to send()
EnvelopeWritten ==
    /\ envText = PlainMessage("")
    /\ envText' = JsonStringify(EnvelopeOf(envArgs))
    /\ last' = Step(envArgs.op, envArgs.agent, "sent")
    /\ UNCHANGED <<envArgs, envRead>>
    /\ UNCHANGED <<lifeVars, taskVars, cursor, nMsgs, recvVars, batchVars, trkVars,
                   apiVars, routeVars, actVars, pollVars, killRes, mailVars, tailVars>>

\* the recipient reads the entry and classifies its text
EnvelopeRead ==
    /\ envText # PlainMessage("")
    /\ envRead = NoRead
    /\ envRead' = Classify([from |-> Controller, text |-> envText])
    /\ last' = Step("parseMessage", envArgs.agent, envRead'.type)
    /\ UNCHANGED <<envArgs, envText>>
    /\ UNCHANGED <<lifeVars, taskVars, cursor, nMsgs, recvVars, batchVars, trkVars,
                   apiVars, routeVars, actVars, pollVars, killRes, mailVars, tailVars>>

NextEnvelope == EnvelopeWritten \/ EnvelopeRead

SpecEnvelope == InitEnvelope /\ [][NextEnvelope]_vars

\* ======================================================================
\* Messaging: send(), broadcast() and the protocol sends, with writeInbox()
\* calls in flight
\* ======================================================================
MaxSends == 3

NotInitialized == "Controller not initialized. Call init() first."

WriteInboxAt_stale(box, to, entry, seen) ==
    [box EXCEPT ![to] = Append(SubSeq(@, 1, seen), entry)]

\* writeInbox(): one atomic append to the recipient's log as it is when the
\* write lands, whatever it was when the call was made
WriteInboxAt(box, to, entry, seen) == [box EXCEPT ![to] = Append(@, entry)]

BroadcastTargets_all(members) == members

\* config.members.filter((m) => m.name !== "controller")
BroadcastTargets(members) == members \ {"controller"}

\* the members in the order of the config file
MemberSeq(S) == SelectSeq(<<"controller", "w1", "w2">>, LAMBDA n : n \in S)

\* the writeInbox() calls of send() to each of these names in turn
SendsTo(names, text, op) ==
    [i \in 1..Len(names) |->
        [to |-> names[i], entry |-> [from |-> Controller, text |-> text],
         seen |-> Len(inbox[names[i]]), op |-> op]]

\* what the messaging steps leave alone
notMail ==
    <<teamName, initialized, pollerRunning, procVars, initVars, shutVars, callVars,
      taskVars, cursor, nMsgs, recvVars, batchVars, trkVars, apiVars, routeVars,
      actVars, pollVars, killRes, envVars, tailVars>>

\* send(agentName, message) up to await writeInbox(...), called as op
SendText(op, n, text) ==
    /\ nSends < MaxSends
    /\ nSends' = nSends + 1
    /\ IF EnsureInitialized(initialized)
       THEN /\ mailPending' = mailPending \o SendsTo(<<n>>, text, op)
            /\ mailAccepted' = [mailAccepted EXCEPT ![n] = @ + 1]
            /\ last' = Step(op, n, "call")
       ELSE /\ last' = Step(op, n, NotInitialized)
            /\ UNCHANGED <<mailPending, mailAccepted>>
    /\ UNCHANGED <<team, inbox, mailOverlapped, bcPc, bcMsg, bcMembers, bcLeft, notMail>>

Send(n, msg) == SendText("send", n, PlainMessage(msg))

SendShutdownRequest(n) ==
    SendText("sendShutdownRequest", n, JsonStringify(ShutdownRequestEnvelope(n)))

SendPlanApproval(n, requestId, approve, feedback) ==
    SendText("sendPlanApproval", n,
             JsonStringify(PlanApprovalEnvelope(requestId, approve, feedback)))

SendPermissionResponse(n, requestId, approve) ==
    SendText("sendPermissionResponse", n,
             JsonStringify(PermissionEnvelope(requestId, approve)))

\* broadcast(message) up to await this.team.getConfig()
BroadcastCall(msg) ==
    /\ bcPc = "idle"
    /\ nSends < MaxSends
    /\ nSends' = nSends + 1
    /\ IF EnsureInitialized(initialized)
       THEN /\ bcPc' = "config"
            /\ bcMsg' = msg
            /\ last' = Step("broadcast", msg, "call")
       ELSE /\ last' = Step("broadcast", msg, NotInitialized)
            /\ UNCHANGED <<bcPc, bcMsg>>
    /\ UNCHANGED <<team, inbox, mailPending, mailAccepted, mailOverlapped, bcMembers,
                   bcLeft, notMail>>

\* getConfig() settles; send() is called for every agent of the config, and
\* Promise.all waits for them
BroadcastConfig ==
    /\ bcPc = "config"
    /\ LET msg == bcMsg
           r == GetConfig(team)
           names == MemberSeq(BroadcastTargets(r.members))
       IN IF ~r.ok \/ ~EnsureInitialized(initialized)
          THEN /\ bcPc' = "idle"
               /\ last' = Step("broadcast", msg, "threw")
               /\ UNCHANGED <<mailPending, mailAccepted, bcMembers, bcLeft>>
          ELSE /\ bcMembers' = r.members
               /\ mailPending' = mailPending \o SendsTo(names, PlainMessage(msg), "broadcast")
               /\ mailAccepted' =
                     [n \in DOMAIN mailAccepted |->
                        mailAccepted[n] + Len(SelectSeq(names, LAMBDA m : m = n))]
               /\ bcLeft' = Len(names)
               /\ bcPc' = IF names = <<>> THEN "idle" ELSE "writing"
               /\ last' = IF names = <<>> THEN Step("broadcast", msg, "return")
                          ELSE Step("broadcast", msg, "sending")
    /\ UNCHANGED <<team, inbox, mailOverlapped, nSends, bcMsg, notMail>>

\* an agent, a process of its own, writes to the controller's mailbox
MailAgentWrite(n, msg) ==
    /\ nSends < MaxSends
    /\ nSends' = nSends + 1
    /\ mailPending' =
          Append(mailPending,
                 [to |-> Controller, entry |-> [from |-> n, text |-> PlainMessage(msg)],
                  seen |-> Len(inbox[Controller]), op |-> "agent"])
    /\ mailAccepted' = [mailAccepted EXCEPT ![Controller] = @ + 1]
    /\ last' = Step("agent", n, "call")
    /\ UNCHANGED <<team, inbox, mailOverlapped, bcPc, bcMsg, bcMembers, bcLeft, notMail>>

\* a writeInbox() in flight lands; the send() that made it returns, and
\* broadcast() returns when the last of its sends has
WriteLands(i) ==
    /\ i \in 1..Len(mailPending)
    /\ LET p == mailPending[i] IN
       /\ inbox' = WriteInboxAt(inbox, p.to, p.entry, p.seen)
       /\ mailOverlapped' = (mailOverlapped \/ p.seen < Len(inbox[p.to]))
       /\ mailPending' = SubSeq(mailPending, 1, i - 1)
                            \o SubSeq(mailPending, i + 1, Len(mailPending))
       /\ IF p.op = "broadcast"
          THEN /\ bcLeft' = bcLeft - 1
               /\ bcPc' = IF bcLeft = 1 THEN "idle" ELSE bcPc
               /\ last' = IF bcLeft = 1
                          THEN Step("broadcast", bcMsg, "return")
                          ELSE Step("broadcast", p.to, "sent")
          ELSE /\ last' = Step(p.op, p.to, "return")
               /\ UNCHANGED <<bcLeft, bcPc>>
    /\ UNCHANGED <<team, mailAccepted, nSends, bcMsg, bcMembers, notMail>>

\* team.addMember() of an agent
MailAddMember(n) ==
    /\ n \notin team.members
    /\ TeamAddMember(team, n).ok
    /\ team' = TeamAddMember(team, n).team
    /\ last' = Step("team.addMember", n, "")
    /\ UNCHANGED <<inbox, mailVars, notMail>>

MailTexts == {"hi"}
BroadcastTexts == {"Hello everyone"}

\* that text has been broadcast before
Broadcasted(msg) ==
    \/ \E n \in DOMAIN inbox : \E i \in 1..Len(inbox[n]) :
          inbox[n][i].text = PlainMessage(msg)
    \/ \E i \in 1..Len(mailPending) : mailPending[i].entry.text = PlainMessage(msg)

NextMail ==
    \/ \E n \in Agents, msg \in MailTexts : Send(n, msg)
    \/ SendShutdownRequest("w2")
    \/ SendPlanApproval("w1", "r1", TRUE, Undefined)
    \/ SendPermissionResponse("w2", "r1", FALSE)
    \/ \E msg \in BroadcastTexts : ~Broadcasted(msg) /\ BroadcastCall(msg)
    \/ BroadcastConfig
    \/ \E msg \in MailTexts : MailAgentWrite("w1", msg)
    \/ \E i \in 1..MaxSends : WriteLands(i)
    \/ \E n \in Agents : MailAddMember(n)

SpecMail == InitStarted /\ [][NextMail]_vars

\* ---- calls on a controller that is not initialized --------------------
\* a controller before init(), and one after shutdown()
InitGuard ==
    /\ \/ Fresh /\ Idle
       \/ Stopped /\ IdleAfter(1)
    /\ NoBatch
    /\ NewTracker
    /\ CreateApi(NoCtl)
    /\ NoneYet

NextGuard ==
    \/ \E n \in Agents, msg \in MailTexts : Send(n, msg)
    \/ \E n \in Agents : SendShutdownRequest(n)
    \/ \E n \in Agents, b \in BOOLEAN : SendPlanApproval(n, "r1", b, Undefined)
    \/ \E n \in Agents, b \in BOOLEAN : SendPermissionResponse(n, "r1", b)
    \/ \E msg \in BroadcastTexts : BroadcastCall(msg)
    \/ \E n \in Agents : SpawnAgentCall(n)
    \/ \E c \in CreateSlots, subj \in Subjects, owner \in Owners :
          CreateTaskCall(c, subj, owner)

SpecGuard == InitGuard /\ [][NextGuard]_vars

\* ======================================================================
\* The Inbox Poller (4.5): stopped -> running -> stopped
\* ======================================================================
MaxTicks == 4
MaxUnread == 2

PollBusy_never(busy) == FALSE

\* a poll cycle is still in flight
PollBusy(busy) == busy > 0

\* what the poller's steps leave alone
notPoller ==
    <<teamName, initialized, team, inbox, procVars, initVars, shutVars, callVars,
      taskVars, cursor, nMsgs, recvVars, batchVars, trkVars, apiVars, routeVars,
      actVars, killRes, envVars, mailVars, tailVars>>

\* an agent appends an entry to the controller's mailbox
PollerInboxWrite ==
    /\ pollUnread + pollGot + pollOut < MaxUnread
    /\ pollUnread' = pollUnread + 1
    /\ last' = Step("writeInbox", "controller", "")
    /\ UNCHANGED <<pollerRunning, pollBusy, pollGot, pollOut, nTicks, notPoller>>

\* the interval timer fires: skipped while a cycle is in flight, else a
\* cycle starts by reading the unread entries
PollerTick ==
    /\ pollerRunning
    /\ nTicks < MaxTicks
    /\ nTicks' = nTicks + 1
    /\ IF PollBusy(pollBusy)
       THEN /\ last' = Step("tick", "", "skipped")
            /\ UNCHANGED <<pollBusy, pollGot, pollUnread>>
       ELSE /\ last' = Step("tick", "", "cycle")
            /\ pollBusy' = pollBusy + 1
            /\ pollGot' = pollGot + pollUnread
            /\ pollUnread' = 0
    /\ UNCHANGED <<pollerRunning, pollOut, notPoller>>

\* the cycle in flight classifies what it read and emits it as one batch
PollerCycleEnd ==
    /\ pollBusy > 0
    /\ pollBusy' = pollBusy - 1
    /\ pollOut' = pollOut + pollGot
    /\ pollGot' = 0
    /\ last' = Step("cycle", "", "end")
    /\ UNCHANGED <<pollerRunning, pollUnread, nTicks, notPoller>>

\* stop(): clears the timer; a cycle in flight is not cancelled
PollerStop ==
    /\ pollerRunning
    /\ pollerRunning' = FALSE
    /\ last' = Step("poller.stop", "", "")
    /\ UNCHANGED <<pollVars, notPoller>>

InitPoller == InitStarted

NextPoller ==
    \/ PollerInboxWrite
    \/ PollerTick
    \/ PollerCycleEnd
    \/ PollerStop

SpecPoller == InitPoller /\ [][NextPoller]_vars

\* ======================================================================
\* The session routes of the REST API: POST /session/init, /session/shutdown
\* ======================================================================
\* createApi(controller): the tracker is attached to a controller handed in
AttachedAtCreate(ctl) ==
    /\ approvals = <<>>
    /\ idleAgents = <<>>
    /\ agentTypes = [n \in Agents |-> ""]
    /\ nAttach = 1
    /\ currentController = ctl
    /\ listeners = [i \in 1..Len(TrackedEvents) |->
                       [event |-> TrackedEvents[i], fn |-> 1]]
    /\ emitter = [c \in Ctls |-> IF c = ctl THEN listeners ELSE <<>>]
    /\ lastCtl = NoCtl

\* createApi() and createApi(controller) with an initialized controller
InitApi ==
    /\ Started
    /\ Idle
    /\ NoBatch
    /\ \/ CreateApi(NoCtl) /\ NewTracker
       \/ CreateApi("c1") /\ AttachedAtCreate("c1")
    /\ NoneYet

\* new ClaudeCodeController(...): the next controller object
NewCtl == IF ctlStatus["c1"] = "none" THEN "c1" ELSE "c2"

\* if (state.initLock) return 409
InitLocked == initLock

\* POST /session/init arrives: the lock test, and up to await c.req.json()
InitRequest(s, valid) ==
    /\ reqPc[s] = "idle"
    /\ nReqs < MaxRequests
    /\ nReqs' = nReqs + 1
    /\ IF InitLocked
       THEN /\ last' = Step("POST /session/init", "", "409")
            /\ UNCHANGED <<initLock, reqPc, reqValid>>
       ELSE /\ \E c \in Ctls : ctlStatus[c] = "none"
            /\ initLock' = TRUE
            /\ reqPc' = [reqPc EXCEPT ![s] = "init:body"]
            /\ reqValid' = [reqValid EXCEPT ![s] = valid]
            /\ last' = Step("POST /session/init", "", "")
    /\ lastCtl' = NoCtl
    /\ UNCHANGED <<external, apiController, owned, ctlStatus, reqCtl>>
    /\ UNCHANGED <<approvals, idleAgents, agentTypes, listeners, currentController,
                   emitter, nAttach>>
    /\ UNCHANGED <<coreVars, batchVars, laterVars>>

\* the body is read: validation, the old session is dropped, and either
\* await oldController.shutdown() or new ClaudeCodeController and
\* await controller.init()
InitBody(s) ==
    /\ reqPc[s] = "init:body"
    /\ lastCtl' = NoCtl
    /\ UNCHANGED <<external, owned, reqValid, nReqs>>
    /\ UNCHANGED <<coreVars, batchVars, laterVars>>
    /\ IF ~reqValid[s]
       THEN /\ initLock' = FALSE
            /\ reqPc' = [reqPc EXCEPT ![s] = "idle"]
            /\ last' = Step("POST /session/init", "", "400")
            /\ UNCHANGED <<apiController, ctlStatus, reqCtl>>
            /\ UNCHANGED <<approvals, idleAgents, agentTypes, listeners,
                           currentController, emitter, nAttach>>
       ELSE /\ last' = Step("POST /session/init", "", "")
            /\ UNCHANGED initLock
            /\ IF apiController # NoCtl
               THEN /\ Clearing
                    /\ apiController' = NoCtl
                    /\ IF owned
                       THEN /\ ctlStatus' = [ctlStatus EXCEPT ![apiController] = "closing"]
                            /\ reqCtl' = [reqCtl EXCEPT ![s] = apiController]
                            /\ reqPc' = [reqPc EXCEPT ![s] = "init:old"]
                       ELSE /\ ctlStatus' = [ctlStatus EXCEPT ![NewCtl] = "initializing"]
                            /\ reqCtl' = [reqCtl EXCEPT ![s] = NewCtl]
                            /\ reqPc' = [reqPc EXCEPT ![s] = "init:init"]
               ELSE /\ ctlStatus' = [ctlStatus EXCEPT ![NewCtl] = "initializing"]
                    /\ reqCtl' = [reqCtl EXCEPT ![s] = NewCtl]
                    /\ reqPc' = [reqPc EXCEPT ![s] = "init:init"]
                    /\ UNCHANGED apiController
                    /\ UNCHANGED <<approvals, idleAgents, agentTypes, listeners,
                                   currentController, emitter, nAttach>>

\* oldController.shutdown() has settled: new ClaudeCodeController and
\* await controller.init()
InitOldDown(s) ==
    /\ reqPc[s] = "init:old"
    /\ ctlStatus' = [ctlStatus EXCEPT ![reqCtl[s]] = "closed", ![NewCtl] = "initializing"]
    /\ reqCtl' = [reqCtl EXCEPT ![s] = NewCtl]
    /\ reqPc' = [reqPc EXCEPT ![s] = "init:init"]
    /\ last' = Step("POST /session/init", "", "")
    /\ lastCtl' = NoCtl
    /\ UNCHANGED <<external, apiController, owned, initLock, reqValid, nReqs>>
    /\ UNCHANGED <<approvals, idleAgents, agentTypes, listeners, currentController,
                   emitter, nAttach>>
    /\ UNCHANGED <<coreVars, batchVars, laterVars>>

\* controller.init() has settled: the session is set up and the lock is
\* released, or the catch block starts await controller.shutdown()
InitSettled(s, ok) ==
    /\ reqPc[s] = "init:init"
    /\ lastCtl' = NoCtl
    /\ UNCHANGED <<external, reqCtl, reqValid, nReqs>>
    /\ UNCHANGED <<coreVars, batchVars, laterVars>>
    /\ IF ok
       THEN /\ ctlStatus' = [ctlStatus EXCEPT ![reqCtl[s]] = "running"]
            /\ apiController' = reqCtl[s]
            /\ owned' = TRUE
            /\ Attaching(reqCtl[s])
            /\ initLock' = FALSE
            /\ reqPc' = [reqPc EXCEPT ![s] = "idle"]
            /\ last' = Step("POST /session/init", "", "201")
       ELSE /\ ctlStatus' = [ctlStatus EXCEPT ![reqCtl[s]] = "closing"]
            /\ reqPc' = [reqPc EXCEPT ![s] = "init:cleanup"]
            /\ last' = Step("POST /session/init", "", "")
            /\ UNCHANGED <<apiController, owned, initLock>>
            /\ UNCHANGED <<approvals, idleAgents, agentTypes, listeners,
                           currentController, emitter, nAttach>>

\* the best-effort controller.shutdown() has settled: throw err, finally
InitCleanedUp(s) ==
    /\ reqPc[s] = "init:cleanup"
    /\ ctlStatus' = [ctlStatus EXCEPT ![reqCtl[s]] = "closed"]
    /\ initLock' = FALSE
    /\ reqPc' = [reqPc EXCEPT ![s] = "idle"]
    /\ last' = Step("POST /session/init", "", "500")
    /\ lastCtl' = NoCtl
    /\ UNCHANGED <<external, apiController, owned, reqCtl, reqValid, nReqs>>
    /\ UNCHANGED <<approvals, idleAgents, agentTypes, listeners, currentController,
                   emitter, nAttach>>
    /\ UNCHANGED <<coreVars, batchVars, laterVars>>

\* POST /session/shutdown arrives: up to await ctrl.shutdown(), or to the
\* response when the controller is not owned
ShutdownRequest(s) ==
    /\ reqPc[s] = "idle"
    /\ nReqs < MaxRequests
    /\ nReqs' = nReqs + 1
    /\ lastCtl' = NoCtl
    /\ UNCHANGED <<external, reqValid>>
    /\ UNCHANGED <<coreVars, batchVars, laterVars>>
    /\ IF InitLocked
       THEN /\ last' = Step("POST /session/shutdown", "", "409")
            /\ UNCHANGED <<apiController, owned, initLock, ctlStatus, reqPc, reqCtl>>
            /\ UNCHANGED <<approvals, idleAgents, agentTypes, listeners,
                           currentController, emitter, nAttach>>
       ELSE IF apiController = NoCtl
       THEN /\ last' = Step("POST /session/shutdown", "", "500")
            /\ UNCHANGED <<apiController, owned, initLock, ctlStatus, reqPc, reqCtl>>
            /\ UNCHANGED <<approvals, idleAgents, agentTypes, listeners,
                           currentController, emitter, nAttach>>
       ELSE /\ Clearing
            /\ apiController' = NoCtl
            /\ UNCHANGED initLock
            /\ IF owned
               THEN /\ ctlStatus' = [ctlStatus EXCEPT ![apiController] = "closing"]
                    /\ reqCtl' = [reqCtl EXCEPT ![s] = apiController]
                    /\ reqPc' = [reqPc EXCEPT ![s] = "shutdown:ctrl"]
                    /\ last' = Step("POST /session/shutdown", "", "")
                    /\ UNCHANGED owned
               ELSE /\ owned' = FALSE
                    /\ last' = Step("POST /session/shutdown", "", "200")
                    /\ UNCHANGED <<ctlStatus, reqPc, reqCtl>>

\* ctrl.shutdown() has settled: state.owned = false, and the response
ShutdownSettled(s) ==
    /\ reqPc[s] = "shutdown:ctrl"
    /\ ctlStatus' = [ctlStatus EXCEPT ![reqCtl[s]] = "closed"]
    /\ owned' = FALSE
    /\ reqPc' = [reqPc EXCEPT ![s] = "idle"]
    /\ last' = Step("POST /session/shutdown", "", "200")
    /\ lastCtl' = NoCtl
    /\ UNCHANGED <<external, apiController, initLock, reqCtl, reqValid, nReqs>>
    /\ UNCHANGED <<approvals, idleAgents, agentTypes, listeners, currentController,
                   emitter, nAttach>>
    /\ UNCHANGED <<coreVars, batchVars, laterVars>>

\* POST /session/init: if (body.teamName) validateName(body.teamName, ...)
TeamNameOk(name) == name = "" \/ ValidateName(name, "teamName") = NoError3

\* POST /agents, from its arrival to its response
PostAgents(b, fails) == RouteRequest("POST /agents", NoValue, b, FALSE, fails)

NextApi ==
    \/ \E s \in ReqSlots, name \in NameInputs \cup {""} : InitRequest(s, TeamNameOk(name))
    \/ \E b \in NameInputs \cup {""}, fails \in BOOLEAN : PostAgents(b, fails)
    \/ \E s \in ReqSlots : InitBody(s)
    \/ \E s \in ReqSlots : InitOldDown(s)
    \/ \E s \in ReqSlots, ok \in BOOLEAN : InitSettled(s, ok)
    \/ \E s \in ReqSlots : InitCleanedUp(s)
    \/ \E s \in ReqSlots : ShutdownRequest(s)
    \/ \E s \in ReqSlots : ShutdownSettled(s)

SpecApi == InitApi /\ [][NextApi]_vars

\* requests to the routes of an API with a session or without one
SpecRoutes == InitApi /\ [][NextRoutes]_vars

\* ======================================================================
\* Properties of the lifecycle (specification Spec)
\* ======================================================================
\* the state in which shutdown() returns
ShutdownReturned == last[1] = "shutdown" /\ last[3] = "return"

SpawnedUnder(n) == {p \in 1..Len(pidName) : pidName[p] = n}

HasShutdownRequest(n) ==
    \E i \in 1..Len(inbox[n]) : inbox[n][i].text.type = "shutdown_request"

\* C1: at most one live agent process per agent name in every reachable
\* state; a spawnAgent(name) that returns has left exactly the process it
\* spawned live under that name (one issued while the previous process is
\* still running is rejected instead).
C1_OneLivePerName ==
    \A n \in Agents :
        /\ Cardinality(LiveOf(n)) <= 1
        /\ last = Step("spawnAgent", n, "return") => LiveOf(n) = {tracked[n]}

\* a spawnAgent(name) was rejected because name's process is still running
C1_Witness ==
    \E n \in Agents :
        /\ last = Step("spawnAgent", n, "rejected")
        /\ Cardinality(LiveOf(n)) = 1

\* C2: shutdown() works in order: before any force-kill every agent of the
\* running snapshot has had its turn of the loop, the requests that were sent
\* are in the mailboxes and every wait has resolved; the poller is stopped
\* and the namespace destroyed only after killAll has completed; and when
\* shutdown() returns no agent process is running and the controller is no
\* longer initialized.
C2_ShutdownOrder ==
    /\ shutPc = "sending" => shutKill = {}
    /\ last = Step("shutdown", "", "killAll") =>
          /\ shutTodo = {} /\ shutWait = {}
          /\ \A n \in shutSent : HasShutdownRequest(n)
    /\ (shutPc \in {"sending", "killing"} /\ initialized) =>
          (pollerRunning /\ team.exists)
    /\ last = Step("shutdown", "", "pollerStop") => shutKill \cap procs = {}
    /\ ShutdownReturned =>
          (RunningAgents = {} /\ procs = {} /\ ~initialized)

\* C4: for every agent name the events emitted are agent:spawned and
\* agent:exited in alternation, starting with agent:spawned: one
\* agent:spawned per process spawned under the name, one agent:exited per
\* such process that has terminated, never before its agent:spawned.
C4_SpawnExitEvents ==
    \A n \in Agents :
        /\ \A i \in 1..Len(events[n]) :
              events[n][i][1] = (IF i % 2 = 1 THEN "agent:spawned" ELSE "agent:exited")
        /\ \A i \in 1..Len(events[n]) : events[n][i][2] = n
        /\ Len(events[n]) =
              2 * Cardinality(SpawnedUnder(n)) - Cardinality(LiveOf(n))

\* one agent ended by a signal and one of its own, each with its agent:exited
C4_Witness ==
    \E n, m \in Agents :
        /\ Len(events[n]) = 2 /\ events[n][2][3] = NullCode
        /\ Len(events[m]) = 2 /\ events[m][2][3] \in ExitCodes

\* C5: when killAgent(name) returns, name is not in runningAgents(), not in
\* the team's member list, and isAgentRunning(name) is false.
C5_KillAgentPost ==
    \A n \in Agents :
        last = Step("killAgent", n, "return") =>
            /\ n \notin RunningAgents
            /\ n \notin GetConfig(team).members
            /\ ~PM_IsRunning(tracked, procs, n)

C7_InitIdempotent ==
    /\ last # Step("init", "", "threw")
    /\ creates <= 1
    /\ ledgerInits <= 1
    /\ pollerStarts <= 1

\* C3: shutdown() always runs to completion and returns: once called, it
\* goes through the force-kill, the poller stop and the namespace destroy to
\* its return; it is never ended by a failing send; and the force-kill comes
\* only when every agent of the running snapshot has had its turn of the
\* loop, whether or not the agents exit and whether or not a send failed.
C3_ShutdownCompletes ==
    /\ [](shutPc \in {"killing", "destroying"} => shutTodo = {})
    /\ [](last[1] = "shutdown" => last[3] # "threw")
    /\ (shutPc = "sending") ~> (shutPc = "killing")
    /\ (shutPc = "killing") ~> (shutPc = "destroying")
    /\ (shutPc = "destroying") ~> ShutdownReturned

\* shutdown() has returned although one agent's send failed and another
\* agent never exited by itself (its timer fired)
C3_Witness == last = Step("shutdown", "forced", "return")

\* ======================================================================
\* Properties of the task operations (specification SpecTasks)
\* ======================================================================
IssuedIds == {issued[i] : i \in 1..Len(issued)}

\* C8: the ids the ledger assigns are 1, 2, 3, ... in this order, whatever
\* createTask() calls overlap and whatever is deleted in between: no id is
\* assigned twice or again after a delete, two calls in flight hold
\* different ids, createTask() returns an assigned id, and as long as nothing
\* was deleted list() has as many records as tasks were created.
C8_TaskIds ==
    /\ \A i \in 1..Len(issued) : issued[i] = i
    /\ TaskList(ledger) \subseteq IssuedIds
    /\ \A c \in CreateSlots : ctPc[c] \in {"get", "send"} => ctId[c] \in IssuedIds
    /\ \A c, d \in CreateSlots :
          (c # d /\ ctPc[c] \in {"get", "send"} /\ ctPc[d] \in {"get", "send"})
              => ctId[c] # ctId[d]
    /\ (last[1] = "createTask" /\ last[3] = "return") => lastId \in IssuedIds
    /\ deleted = {} => Cardinality(TaskList(ledger)) = Len(issued)

\* a createTask() that came after the deletion of task 1 has returned id 2
C8_Witness ==
    /\ last = Step("createTask", "", "return")
    /\ lastId = 2
    /\ deleted = {1}

\* C9: a step is the successful return of createTask() with owner w or of
\* assignTask(id, w) exactly when it appends one task_assignment entry to
\* w's mailbox, which carries the task's id and subject; the return of a
\* createTask() without owner changes no mailbox.
C9_AssignmentNotified ==
    [][\A w \in Agents :
         LET returned == last' \in {Step("createTask", w, "return"),
                                    Step("assignTask", w, "return")}
             got == /\ Len(inbox'[w]) > Len(inbox[w])
                    /\ inbox'[w][Len(inbox'[w])].text.type = "task_assignment"
         IN /\ returned =>
                  inbox' = [inbox EXCEPT ![w] =
                      Append(@, [from |-> Controller,
                                 text |-> TaskAssignmentText(lastId', subjOf'[lastId'])])]
            /\ got => returned
            /\ last' = Step("createTask", "", "return") => inbox' = inbox
      ]_vars

\* assignTask(id, w) has returned and w's mailbox holds its notification
\* after that of an earlier createTask() with owner w
C9_Witness ==
    \E w \in Agents :
        /\ last = Step("assignTask", w, "return")
        /\ Len(inbox[w]) = 2
        /\ \A i \in 1..2 : inbox[w][i].text.type = "task_assignment"

\* ======================================================================
\* Properties of receive() (specifications SpecRecv, FairSpecRecv)
\* ======================================================================
Qualifies(m, n) == m.from = n /\ (Meaningful(m) \/ IsIdle(m))

ReceiveEnded == last[1] = "receive" /\ last[3] \in {"return", "timeout"}

\* C10: every receive(name, {timeout: T}) call ends, by a return or by the
\* timeout error; what it returns is never empty and holds only qualifying
\* messages from name; it goes to sleep only when the poll found no
\* qualifying message from name; and the timeout error names the sender and
\* T and is thrown only when the deadline has passed.
C10_ReceiveTerminates ==
    /\ [](\A n \in Agents : last = Step("receive", n, "return") =>
            /\ recvOut # <<>>
            /\ \A i \in 1..Len(recvOut) : Qualifies(recvOut[i], n))
    /\ [](\A n \in Agents : last = Step("receive", n, "timeout") =>
            /\ recvErr = [timeout |-> recvArg.timeout, name |-> n]
            /\ recvArg.from = n
            /\ now >= recvDeadline)
    /\ [](recvPc = "sleep" =>
            \A i \in 1..Len(recvSeen) : ~Qualifies(recvSeen[i], recvArg.from))
    /\ (recvPc # "idle") ~> ReceiveEnded

\* receive(n) has timed out after polling, with a message from n in the
\* mailbox that did not qualify or that another reader had taken
C10_Witness ==
    \E n \in Agents :
        /\ last = Step("receive", n, "timeout")
        /\ recvErr.timeout > 0
        /\ \E i \in 1..Len(inbox[Controller]) : inbox[Controller][i].from = n

\* ======================================================================
\* Properties of the message filters (specification SpecBatch)
\* ======================================================================
ResponseTriad ==
    {"shutdown_approved", "plan_approval_response", "permission_response"}

\* a content message: neither an idle notification nor of the triad
IsContent(m) ==
    ParseMessage(m).type \notin ResponseTriad \cup {"idle_notification"}

IsIdleNote(m) == ParseMessage(m).type = "idle_notification"

BatchFrom(n) == SelectSeq(batch, LAMBDA m : m.from = n)

Some(seq, P(_)) == \E i \in 1..Len(seq) : P(seq[i])

Every(seq, P(_)) == \A i \in 1..Len(seq) : P(seq[i])

\* C11: whatever the unread batch holds, no message that receive() or
\* receiveAny() returns is classified shutdown_approved,
\* plan_approval_response or permission_response.
C11_NoProtocolOnly ==
    \A i \in 1..Len(picked) : ParseMessage(picked[i]).type \notin ResponseTriad

\* receiveAny() has returned a message from a batch that starts with a
\* message of the triad
C11_Witness ==
    /\ last = Step("receiveAny", "", "turn")
    /\ picked # <<>>
    /\ Len(batch) >= 2
    /\ ParseMessage(batch[1]).type \in ResponseTriad

\* C12: a turn of receive(name) on a batch with a content message from
\* name returns content messages from name only; on a batch without one but
\* with an idle notification from name it returns idle notifications from
\* name instead of going on to wait.
C12_ContentBeforeIdle ==
    \A n \in Agents :
        last = Step("receive", n, "turn") =>
            /\ Some(BatchFrom(n), IsContent) =>
                  /\ picked # <<>>
                  /\ Every(picked, LAMBDA m : m.from = n /\ IsContent(m))
            /\ (~Some(BatchFrom(n), IsContent) /\ Some(BatchFrom(n), IsIdleNote)) =>
                  /\ picked # <<>>
                  /\ Every(picked, LAMBDA m : m.from = n /\ IsIdleNote(m))

\* receive(n) has returned the idle notification of a batch that holds,
\* from n, an idle notification and a message of the triad, and content
\* from the other agent only
C12_Witness ==
    \E n \in Agents :
        /\ last = Step("receive", n, "turn")
        /\ Some(BatchFrom(n), IsIdleNote)
        /\ Some(BatchFrom(n), LAMBDA m : ParseMessage(m).type \in ResponseTriad)
        /\ Some(batch, LAMBDA m : m.from # n /\ IsContent(m))
        /\ picked # <<>>
        /\ IsIdleNote(picked[1])

\* C13: a turn of receiveAny() on a batch without content message but with
\* an idle notification returns the idle notification instead of going on
\* to wait.
C13_ReceiveAnyIdle ==
    (/\ last = Step("receiveAny", "", "turn")
     /\ ~Some(batch, IsContent)
     /\ Some(batch, IsIdleNote))
        => (picked # <<>> /\ IsIdleNote(picked[1]))

\* ======================================================================
\* Properties of the Action Tracker (specification SpecTracker)
\* ======================================================================
\* getPendingApprovals()
GetPendingApprovals(m) == MapValues(m)

\* getIdleAgents(), by name
IdleNames(m) == {m[i].v.name : i \in 1..Len(m)}

ApprovalsOf(m, a) == SelectSeq(GetPendingApprovals(m), LAMBDA v : v.agent = a)

ApprovalsNotOf(m, a) == SelectSeq(GetPendingApprovals(m), LAMBDA v : v.agent # a)

ApprovalsKeyed(m, r) == SelectSeq(GetPendingApprovals(m), LAMBDA v : v.requestId = r)

\* the step is the attached controller emitting ev
EmittedByAttached(ev) ==
    /\ last'[1] = ev
    /\ lastCtl' # NoCtl
    /\ lastCtl' = currentController

\* C14: when the attached controller emits agent:exited for agent a, no
\* pending approval of a is left and the pending approvals of the other
\* agents are what they were, in their order.
C14_ExitPurges ==
    [][EmittedByAttached("agent:exited") =>
          /\ ApprovalsOf(approvals', last'[2]) = <<>>
          /\ ApprovalsNotOf(approvals', last'[2]) =
                 ApprovalsNotOf(approvals, last'[2])]_vars

\* agent:exited of w1 has been handled and the approval of w2 is pending
C14_Witness ==
    /\ last = Step("agent:exited", "w1", "")
    /\ lastCtl = currentController
    /\ ApprovalsOf(approvals, "w2") # <<>>
    /\ ApprovalsOf(approvals, "w1") = <<>>

\* the approval type an event stands for
ApprovalType(ev) == IF ev = "plan:approval_request" THEN "plan" ELSE "permission"

\* C15: when the attached controller emits plan:approval_request or
\* permission:request with requestId r from agent a, getPendingApprovals()
\* then holds exactly one entry keyed by r, of that type and of agent a; and
\* an entry keyed by r goes away only by resolveApproval(r), agent:exited of
\* its agent, or clear().
C15_PendingApproval ==
    [][/\ \A ev \in {"plan:approval_request", "permission:request"} :
              EmittedByAttached(ev) =>
                  ApprovalsKeyed(approvals', last'[3]) =
                      <<[type |-> ApprovalType(ev), agent |-> last'[2],
                         requestId |-> last'[3]]>>
       /\ \A r \in RequestIds :
              (ApprovalsKeyed(approvals, r) # <<>> /\ ApprovalsKeyed(approvals', r) = <<>>) =>
                  \/ last' = Step("resolveApproval", "", r)
                  \/ last' = Step("clear", "", "")
                  \/ last' = Step("agent:exited", ApprovalsKeyed(approvals, r)[1].agent, "")]_vars

\* a permission request r1 of w2 has been handled while the plan request r2
\* of w1 is pending
C15_Witness ==
    /\ last = Step("permission:request", "w2", "r1")
    /\ lastCtl = currentController
    /\ ApprovalsKeyed(approvals, "r1") =
           <<[type |-> "permission", agent |-> "w2", requestId |-> "r1"]>>
    /\ ApprovalsKeyed(approvals, "r2") =
           <<[type |-> "plan", agent |-> "w1", requestId |-> "r2"]>>

\* C16: when a member listed idle sends a further message of another
\* classified type than idle_notification to the attached controller (which
\* emits message, shutdown:approved, plan:approval_request or
\* permission:request for it), the member is no longer listed in
\* getIdleAgents().
C16_IdleCleared ==
    [][\A ev \in {"message", "shutdown:approved", "plan:approval_request",
                   "permission:request"} :
          (/\ EmittedByAttached(ev)
           /\ last'[2] \in IdleNames(idleAgents))
              => last'[2] \notin IdleNames(idleAgents')]_vars

TrackedEventSet == {TrackedEvents[i] : i \in 1..Len(TrackedEvents)}

ListenersOn(c, ev) == Len(SelectSeq(emitter[c], LAMBDA l : l.event = ev))

\* C17: listeners of the tracker are on no controller but the attached one,
\* which has exactly one per tracked event; attach(c) leaves listeners on c
\* only; and an event of a controller that is not the attached one changes
\* neither the pending approvals nor the idle agents.
C17_NoListenerLeak ==
    /\ [](\A c \in Ctls :
             /\ emitter[c] # <<>> => c = currentController
             /\ c = currentController =>
                    \A ev \in TrackedEventSet : ListenersOn(c, ev) = 1)
    /\ [][(last'[1] = "attach" =>
               \A d \in Ctls : emitter'[d] # <<>> => d = lastCtl')
           /\
           ((last'[1] \in TrackedEventSet /\ lastCtl' # currentController) =>
               UNCHANGED <<approvals, idleAgents, agentTypes>>)]_vars

\* after attach(c1) then attach(c2), c1 has emitted a plan request, which
\* the tracker does not hold
C17_Witness ==
    /\ nAttach = 2
    /\ currentController = "c2"
    /\ last = Step("plan:approval_request", "w1", "r1")
    /\ lastCtl = "c1"
    /\ approvals = <<>>

\* ======================================================================
\* Properties of the session routes (specification SpecApi)
\* ======================================================================
InitInProgress ==
    \E s \in ReqSlots : reqPc[s] \in {"init:body", "init:old", "init:init", "init:cleanup"}

ShutdownInProgress == \E s \in ReqSlots : reqPc[s] = "shutdown:ctrl"

SessionRoutes == {"POST /session/init", "POST /session/shutdown"}

\* C18: a /session/init or /session/shutdown request that arrives while a
\* /session/init is in progress is answered 409 and changes nothing of the
\* API's state, the tracker or the controllers; and no /session/init is in
\* progress while a /session/shutdown is.
C18_InitLock ==
    /\ [][(InitInProgress /\ nReqs' = nReqs + 1 /\ last'[1] \in SessionRoutes) =>
             /\ last'[3] = "409"
             /\ UNCHANGED <<external, apiController, owned, initLock, ctlStatus,
                            reqPc, reqCtl>>
             /\ UNCHANGED <<approvals, idleAgents, agentTypes, listeners,
                            currentController, emitter, nAttach>>]_vars
    /\ [](~(InitInProgress /\ ShutdownInProgress))

\* the controllers made by POST /session/init
Created == {c \in Ctls : c # external /\ ctlStatus[c] # "none"}

\* C19: a controller made by POST /session/init that is running (neither
\* being shut down nor shut down) is the API's current controller and is
\* marked owned.
C19_OwnedShutDown ==
    \A c \in Created :
        ctlStatus[c] = "running" => (apiController = c /\ owned)

\* C20: the controller handed to createApi() is never shut down: it stays
\* running whatever requests the API serves; and a /session/shutdown that
\* ends its session leaves the API with no session.
C20_ExternalKept ==
    /\ [](external # NoCtl => ctlStatus[external] = "running")
    /\ [][(/\ last' = Step("POST /session/shutdown", "", "200")
            /\ external # NoCtl
            /\ apiController = external) =>
              (apiController' = NoCtl /\ ctlStatus'[external] = "running")]_vars

\* /session/shutdown has answered 200 for the session of the controller
\* handed in, with no other controller ever made
C20_Witness ==
    /\ last = Step("POST /session/shutdown", "", "200")
    /\ external = "c1"
    /\ apiController = NoCtl
    /\ currentController = NoCtl
    /\ ctlStatus = [c \in Ctls |-> IF c = "c1" THEN "running" ELSE "none"]

\* ======================================================================
\* Properties of the routes (specifications SpecRoutes, SpecApi)
\* ======================================================================
\* 1-64 alphanumerics, hyphens or underscores
InSafeCharset(v) ==
    LET chars == Spell(v)
    IN /\ Len(chars) >= 1
       /\ Len(chars) <= 64
       /\ \A i \in 1..Len(chars) : chars[i] \in Letters \cup Digits \cup {"-", "_"}

\* a numeric task id
IsNumericId(v) ==
    LET chars == Spell(v)
    IN Len(chars) >= 1 /\ \A i \in 1..Len(chars) : chars[i] \in Digits

\* the latest request carried a name or task id outside the safe charset
CarriedUnsafe ==
    \/ last[1] \in NameRoutes /\ ~InSafeCharset(routeVal[1])
    \/ last[1] \in IdRoutes /\ ~IsNumericId(routeVal[1])
    \/ last[1] \in {"POST /agents", "POST /tasks/:id/assign"}
         /\ routeVal[2] # "" /\ ~InSafeCharset(routeVal[2])

\* C21: with a session, a request to a route that carries an agent name or
\* task id outside the safe charset is answered 400, and its handler has
\* made no call to the controller, the registry, a mailbox or the ledger.
C21_RejectsUnsafe ==
    (apiController # NoCtl /\ CarriedUnsafe) =>
        (resp.status = "400" /\ routeOps = {})

\* C22: a POST /session/init answered 400 leaves the controller, owned, the
\* controllers and the tracker as they were; and a POST /agents with a name
\* outside the safe charset is answered 400, registers no agent type and
\* makes no call to the controller.
C22_NotPartiallyApplied ==
    [][/\ last' = Step("POST /session/init", "", "400") =>
             UNCHANGED <<apiController, owned, ctlStatus, approvals, idleAgents,
                         agentTypes, listeners, currentController, emitter>>
       /\ (/\ last'[1] = "POST /agents"
           /\ apiController # NoCtl
           /\ routeVal'[2] # ""
           /\ ~InSafeCharset(routeVal'[2])) =>
             /\ resp'.status = "400"
             /\ routeOps' = {}
             /\ UNCHANGED <<apiController, owned, ctlStatus, approvals, idleAgents,
                            agentTypes, listeners, currentController, emitter>>]_vars

\* a POST /session/init with a bad teamName has been answered 400 while the
\* session made by an earlier POST /session/init is in place
C22_Witness ==
    /\ last = Step("POST /session/init", "", "400")
    /\ \E s \in ReqSlots : ~reqValid[s]
    /\ apiController = "c1"
    /\ external = NoCtl
    /\ owned
    /\ currentController = "c1"
    /\ ctlStatus["c1"] = "running"

NoSessionMessage == "No active session. Call POST /session/init first."

OpenTasks == {i \in 1..Len(listed) : listed[i].owner = "" /\ listed[i].status # "completed"}

ListedIds(ts) == {ts[i].id : i \in 1..Len(ts)}

\* C30: the body of a GET /actions response has pending equal to the number
\* of pending approvals plus the number of idle agents plus the number of
\* listed tasks with no owner and a status other than completed, and its
\* unassignedTasks are exactly those tasks, each once.
C30_PendingCount ==
    last = Step("GET /actions", "", "200") =>
        /\ actions.pending =
              Len(approvals) + Len(idleAgents) + Cardinality(OpenTasks)
        /\ Len(actions.unassignedTasks) = Cardinality(OpenTasks)
        /\ ListedIds(actions.unassignedTasks) = {listed[i].id : i \in OpenTasks}
        /\ \A i \in 1..Len(listed) :
              (listed[i].owner # "" \/ listed[i].status = "completed") =>
                  listed[i].id \notin ListedIds(actions.unassignedTasks)

\* GET /actions answered with one approval, one idle agent and one open task
\* counted, next to an owned task that is left out
C30_Witness ==
    /\ last = Step("GET /actions", "", "200")
    /\ Len(approvals) = 1
    /\ Len(idleAgents) = 1
    /\ Len(listed) = 2
    /\ listed[1].owner = "w1"
    /\ listed[2] = [id |-> 2, owner |-> "", status |-> "in_progress"]
    /\ actions.pending = 3
    /\ ListedIds(actions.unassignedTasks) = {2}

\* ----------------------------------------------------------------------
\* Properties of the Inbox Poller, checked under SpecPoller
\* ----------------------------------------------------------------------
\* C23: at most one poll cycle is in flight at any time; a tick that fires
\* while a cycle is in flight starts nothing and reads nothing; stop() stops
\* the poller without touching the cycle in flight, no cycle starts once the
\* poller is stopped, and a cycle that ends emits what it read, stopped or
\* not.
C23_NoOverlap ==
    [][/\ pollBusy' <= 1
       /\ (last'[1] = "tick" /\ pollBusy > 0) =>
             (last'[3] = "skipped" /\ UNCHANGED <<pollBusy, pollGot, pollUnread, pollOut>>)
       /\ last'[1] = "poller.stop" =>
             (~pollerRunning' /\ UNCHANGED <<pollBusy, pollGot, pollUnread, pollOut>>)
       /\ ~pollerRunning => (pollBusy' <= pollBusy /\ ~pollerRunning')
       /\ last' = Step("cycle", "", "end") =>
             (pollBusy' = pollBusy - 1 /\ pollOut' = pollOut + pollGot)]_vars

\* a tick was skipped during a cycle that had read an entry, the poller was
\* stopped with that cycle in flight, and the cycle has finished and emitted
C23_Witness ==
    /\ ~pollerRunning
    /\ last = Step("cycle", "", "end")
    /\ nTicks >= 2
    /\ pollOut >= 1
    /\ pollBusy = 0

\* ----------------------------------------------------------------------
\* Properties of killAgent(), checked under SpecKill
\* ----------------------------------------------------------------------
\* C25: when the kill step of killAgent(n) fails the call throws, the team's
\* members are unchanged and no removal follows; when the removal fails the
\* call throws; and the call returns only after its kill step, if it had
\* one to wait for, resolved and its removal succeeded, with n no longer a
\* member.
C25_KillAgentPartial ==
    [][\A n \in Agents :
         /\ last' = Step("killAgent", n, "kill threw") =>
               (killPc[n] = "killing" /\ team' = team /\ killPc'[n] = "idle")
         /\ (killPc[n] = "killing" /\ killPc'[n] # "killing") =>
               \/ last' = Step("killAgent", n, "kill threw")
               \/ (killPc'[n] = "removing" /\ killRes'[n] = "resolved")
         /\ (killPc[n] = "removing" /\ killPc'[n] = "idle"
                /\ (~team.exists \/ (team' = team /\ n \in team.members))) =>
               last' = Step("killAgent", n, "removeMember threw")
         /\ last' = Step("killAgent", n, "return") =>
               /\ killPc[n] = "removing"
               /\ killRes[n] # "rejected"
               /\ n \notin team'.members]_vars

\* killAgent("w1") threw on its kill step with w1 still a member
C25_Witness ==
    /\ last = Step("killAgent", "w1", "kill threw")
    /\ "w1" \in team.members
    /\ killPc["w1"] = "idle"

IsPrefix(a, b) == Len(a) <= Len(b) /\ SubSeq(b, 1, Len(a)) = a

Mailboxes == Agents \cup {Controller}

InFlightTo(n) == Len(SelectSeq(mailPending, LAMBDA p : p.to = n))

\* C24: while the team exists, every step leaves each mailbox's entries in
\* place and in order, adding at most one at its end, and no write is
\* lost: the entries of a mailbox and the writes to it still in flight are
\* as many as the writes made to it, however the writes overlap.
C24_AppendOnly ==
    [][\A n \in Mailboxes :
         (team.exists /\ team'.exists) =>
            /\ IsPrefix(inbox[n], inbox'[n])
            /\ Len(inbox'[n]) <= Len(inbox[n]) + 1
            /\ Len(inbox'[n]) + InFlightTo(n)' = mailAccepted'[n]]_vars

\* two writes to w1's mailbox overlapped and both entries are there
C24_Witness ==
    /\ mailOverlapped
    /\ mailAccepted["w1"] = 2
    /\ Len(inbox["w1"]) = 2
    /\ mailPending = <<>>

BroadcastEntries(n, msg) ==
    Len(SelectSeq(inbox[n], LAMBDA e : e.text.json = FALSE /\ e.text.raw = msg))

\* C27: when broadcast(msg) returns, the mailbox of every member of the
\* team other than "controller" holds exactly one entry with that text, sent
\* by "controller", and no other mailbox holds any.
C27_Broadcast ==
    [][\A msg \in BroadcastTexts :
         last' = Step("broadcast", msg, "return") =>
            \A n \in Mailboxes :
               /\ BroadcastEntries(n, msg)' =
                     IF n \in bcMembers' /\ n # "controller" THEN 1 ELSE 0
               /\ \A i \in 1..Len(inbox'[n]) :
                     inbox'[n][i].text.raw = msg => inbox'[n][i].from = "controller"]_vars

\* a broadcast to the members w1 and w2 has returned
C27_Witness ==
    /\ last = Step("broadcast", "Hello everyone", "return")
    /\ bcMembers = {"controller", "w1", "w2"}
    /\ BroadcastEntries("w1", "Hello everyone") = 1
    /\ BroadcastEntries("w2", "Hello everyone") = 1
    /\ BroadcastEntries("controller", "Hello everyone") = 0

\* ----------------------------------------------------------------------
\* Properties of the calls on a controller that is not initialized,
\* checked under SpecGuard
\* ----------------------------------------------------------------------
MessagingOps ==
    {"send", "broadcast", "sendShutdownRequest", "sendPlanApproval",
     "sendPermissionResponse"}

ApprovalWriters ==
    {"plan:approval_request", "permission:request", "resolveApproval",
     "agent:exited", "clear"}

\* C40: the pending approvals change only in a step of an approval event,
\* of resolveApproval, of agent:exited or of clear; an idle, message or
\* agent:spawned event, registerAgentType, attach and detach leave every
\* entry as it was; and resolveApproval(r) changes nothing of the tracker
\* but the approvals, from which it takes the entry keyed r and no other
\* (nothing at all when r is not pending).
C40_ApprovalsFrame ==
    [][/\ approvals' # approvals => last'[1] \in ApprovalWriters
       /\ last'[1] = "resolveApproval" =>
             /\ UNCHANGED <<idleAgents, agentTypes, listeners, currentController,
                            emitter>>
             /\ \A i \in 1..Len(approvals') : approvals'[i].k # last'[3]
             /\ \E keep \in SUBSET (1..Len(approvals)) :
                   /\ keep = {i \in 1..Len(approvals) : approvals[i].k # last'[3]}
                   /\ Len(approvals') = Cardinality(keep)
                   /\ \A i \in keep :
                         approvals'[Cardinality({j \in keep : j <= i})] = approvals[i]
             /\ ~MapHas(approvals, last'[3]) => approvals' = approvals]_vars

\* resolveApproval("r1") has run while a request "r2" was pending and an
\* agent was idle: "r2" is still pending
C40_Witness ==
    /\ last = Step("resolveApproval", "", "r1")
    /\ Len(approvals) = 1
    /\ approvals[1].k = "r2"
    /\ idleAgents # <<>>
    /\ currentController # NoCtl

\* ======================================================================
\* handlePollEvents() on one polled batch
\* ======================================================================
\* what the poller may find in the controller's mailbox: a plain text, an
\* envelope of each known type and one of an unknown type
PolledTexts ==
    {PlainText, ProtocolText("note")} \cup {ProtocolText(t) : t \in KnownTypes}

PolledBatches ==
    UNION {[1..k -> [from : Agents, text : PolledTexts]] : k \in 0..MaxBatch}

\* the arguments of one emit(): the event, raw.from, and parsed or raw
EmitOf(m) ==
    LET ev == PollEventName(m)
    IN [event |-> ev,
        from |-> m.from,
        arg |-> CASE ev = "idle" -> "none"
                  [] ev = "message" -> "raw"
                  [] OTHER -> "parsed",
        type |-> ParseMessage(m).type]

\* the for loop of handlePollEvents(): one switch per event, in order
RECURSIVE HandlePollEvents(_, _)
HandlePollEvents(evs, out) ==
    IF evs = <<>> THEN out
    ELSE HandlePollEvents(Tail(evs), Append(out, EmitOf(Head(evs))))

\* the poller has a batch for the controller
InitEvents ==
    /\ Started
    /\ Idle
    /\ NoBatch
    /\ NewTracker
    /\ CreateApi(NoCtl)
    /\ NoRoute /\ NoActions /\ NoPoll /\ NoKill /\ NoEnvelope /\ NoMail /\ NoMerge
    /\ polled \in PolledBatches
    /\ handled = FALSE
    /\ emitted = <<>>

\* handlePollEvents(events)
HandlePollEventsCall ==
    /\ ~handled
    /\ handled' = TRUE
    /\ emitted' = HandlePollEvents(polled, <<>>)
    /\ last' = Step("handlePollEvents", "", "")
    /\ UNCHANGED <<coreVars, batchVars, trkVars, apiVars, routeVars, actVars,
                   pollVars, killRes, envVars, mailVars, polled, mergeVars>>

NextEvents == HandlePollEventsCall

SpecEvents == InitEvents /\ [][NextEvents]_vars

\* ----------------------------------------------------------------------
\* The events of a polled batch, checked under SpecEvents
\* ----------------------------------------------------------------------
\* the event the controller is said to emit for a classified type
EventOfType(t) ==
    CASE t = "idle_notification" -> "idle"
      [] t = "shutdown_approved" -> "shutdown:approved"
      [] t = "plan_approval_request" -> "plan:approval_request"
      [] t = "permission_request" -> "permission:request"
      [] t \in {"plain_text", "task_assignment", "shutdown_request",
                "plan_approval_response", "permission_response"} -> "message"
      [] OTHER -> "message"

\* C39: for a polled batch the controller emits exactly one event per
\* message, in the order of the batch, each from the message's sender and
\* named by the message's classified type: idle, shutdown:approved,
\* plan:approval_request and permission:request for their types, message
\* for every other type.
C39_OneEventPerMessage ==
    handled =>
       /\ Len(emitted) = Len(polled)
       /\ \A i \in 1..Len(polled) :
             /\ emitted[i].from = polled[i].from
             /\ emitted[i].event = EventOfType(ParseMessage(polled[i]).type)

\* a batch of three from two senders has been handled: a shutdown
\* approval, a permission response and an idle notification
C39_Witness ==
    /\ handled
    /\ Len(polled) = 3
    /\ polled[1] = [from |-> "w2", text |-> ProtocolText("shutdown_approved")]
    /\ polled[2] = [from |-> "w1", text |-> ProtocolText("permission_response")]
    /\ polled[3] = [from |-> "w1", text |-> ProtocolText("idle_notification")]
    /\ Len(emitted) = 3
    /\ emitted[2].event = "message"

\* ======================================================================
\* The environment spawnAgent() hands to the process of a new agent
\* ======================================================================
EnvKeys == {"A", "B"}
EnvValues == {"1", "2"}

\* plain objects with string values, their keys in insertion order
EnvMaps ==
    {m \in UNION {[1..k -> [k : EnvKeys, v : EnvValues]] : k \in 0..Cardinality(EnvKeys)} :
        \A i, j \in 1..Len(m) : i # j => m[i].k # m[j].k}

\* an env option: undefined, or an object
NoEnv == [defined |-> FALSE, map |-> <<>>]
EnvOptions == {NoEnv} \cup {[defined |-> TRUE, map |-> m] : m \in EnvMaps}

\* constructor: this.defaultEnv = opts?.env || {}
CtorEnv(opt) == IF opt.defined THEN opt.map ELSE <<>>

\* { ...obj, ...src }: the own properties of src are set on obj in order
RECURSIVE Spread(_, _)
Spread(obj, src) ==
    IF src = <<>> THEN obj
    ELSE Spread(MapSet(obj, Head(src).k, Head(src).v), Tail(src))

MergeEnv_reversed(def, opt) ==
    IF Len(def) > 0 \/ opt.defined
    THEN [defined |-> TRUE, map |-> Spread(Spread(<<>>, opt.map), def)]
    ELSE NoEnv

\* spawnAgent(): const env = ... ? { ...this.defaultEnv, ...opts.env } : undefined
MergeEnv(def, opt) ==
    IF Len(def) > 0 \/ opt.defined
    THEN [defined |-> TRUE, map |-> Spread(Spread(<<>>, def), opt.map)]
    ELSE NoEnv

\* a controller made with some env option, and a spawnAgent() call with some
InitMerge ==
    /\ Started
    /\ Idle
    /\ NoBatch
    /\ NewTracker
    /\ CreateApi(NoCtl)
    /\ NoRoute /\ NoActions /\ NoPoll /\ NoKill /\ NoEnvelope /\ NoMail /\ NoEvents
    /\ defaultEnv \in {CtorEnv(o) : o \in EnvOptions}
    /\ optsEnv \in EnvOptions
    /\ spawnEnv = NoEnv

\* spawnAgent(opts): the env of its processes.spawn() call
SpawnEnv ==
    /\ last[1] # "spawnAgent"
    /\ spawnEnv' = MergeEnv(defaultEnv, optsEnv)
    /\ last' = Step("spawnAgent", "", "env")
    /\ UNCHANGED <<coreVars, batchVars, trkVars, apiVars, routeVars, actVars,
                   pollVars, killRes, envVars, mailVars, evtVars, defaultEnv, optsEnv>>

NextMerge == SpawnEnv

SpecMerge == InitMerge /\ [][NextMerge]_vars

\* ----------------------------------------------------------------------
\* The merged environment, checked under SpecMerge
\* ----------------------------------------------------------------------
\* obj[k], "undefined" for a key obj does not have
EnvGet(obj, k) ==
    IF MapHas(obj, k) THEN (CHOOSE e \in {obj[i] : i \in 1..Len(obj)} : e.k = k).v
    ELSE "undefined"

\* C31: the env spawnAgent() hands to the process is the controller's
\* default env overlaid with the per-spawn env: a key of both has the
\* per-spawn value, a key of one of them has that one's value, and no
\* other key is set.
C31_EnvOverlay ==
    last = Step("spawnAgent", "", "env") =>
       /\ \A k \in EnvKeys :
             EnvGet(spawnEnv.map, k) =
                IF MapHas(optsEnv.map, k) THEN EnvGet(optsEnv.map, k)
                ELSE EnvGet(defaultEnv, k)
       /\ \A i, j \in 1..Len(spawnEnv.map) :
             i # j => spawnEnv.map[i].k # spawnEnv.map[j].k
       /\ \A i \in 1..Len(spawnEnv.map) : spawnEnv.map[i].k \in EnvKeys

\* the default env sets A and B, the spawn sets A to another value: the
\* process gets the spawn's A and the default's B
C31_Witness ==
    /\ last = Step("spawnAgent", "", "env")
    /\ defaultEnv = <<[k |-> "A", v |-> "1"], [k |-> "B", v |-> "1"]>>
    /\ optsEnv = [defined |-> TRUE, map |-> <<[k |-> "A", v |-> "2"]>>]
    /\ spawnEnv.defined
    /\ EnvGet(spawnEnv.map, "A") = "2"
    /\ EnvGet(spawnEnv.map, "B") = "1"

\* ----------------------------------------------------------------------
\* Running processes and registered members, checked under Spec
\* ----------------------------------------------------------------------
\* C34: in every state, whatever the interleaving of spawnAgent(n) and
\* killAgent(n) calls, each running agent process belongs to a member
\* registered in the team config (stated here for the states no shutdown()
\* call has touched).
C34_RunningAreMembers ==
    (shutPc = "idle" /\ nShutdowns = 0) =>
        \A p \in procs : pidName[p] \in GetConfig(team).members

\* ----------------------------------------------------------------------
\* A spawnAgent() call that fails, checked under Spec
\* ----------------------------------------------------------------------
\* a spawnAgent() call ends in this step without returning a handle
SpawnAgentFails ==
    /\ \E n \in Agents : pending'[n] < pending[n]
    /\ ~(last'[1] = "spawnAgent" /\ last'[3] = "return")

\* C37: a spawnAgent() call that fails (the registry write fails, or the
\* process cannot be spawned) leaves the team as it was: no member entry is
\* added, no process is tracked and no agent:spawned event is emitted.
C37_FailedSpawn ==
    [][SpawnAgentFails =>
          UNCHANGED <<team, procs, pidName, tracked, armed, events>>]_vars

\* ----------------------------------------------------------------------
\* assignTask() that fails, checked under SpecTasks
\* ----------------------------------------------------------------------
\* the mailbox of agent w holds a task_assignment entry for task id
AssignmentWritten(id, w) ==
    \E i \in 1..Len(inbox[w]) :
        /\ inbox[w][i].text.type = "task_assignment"
        /\ inbox[w][i].text.taskId = id

\* C36: assignTask() is all-or-nothing: a task has the owner an assignTask()
\* call gave it only if that call also wrote its task_assignment entry.
\* No task is created with the owner "w2", so until shutdown() is called a
\* task owned by "w2" has its entry in the mailbox of "w2", or the call that
\* assigns it is still under way.
C36_AssignAllOrNothing ==
    (shutPc = "idle" /\ nShutdowns = 0) =>
        \A id \in TaskIds :
            (ledger[id].exists /\ ledger[id].owner = "w2") =>
                \/ AssignmentWritten(id, "w2")
                \/ atPc = "send" /\ atArg.id = id /\ atArg.to = "w2"

\* ----------------------------------------------------------------------
\* POST /session/init whose controller.init() fails, checked under SpecApi
\* ----------------------------------------------------------------------
InitFailed == Step("POST /session/init", "", "500")

\* C38: when controller.init() fails inside POST /session/init, the
\* controller the request made is shut down, the API has no active
\* session (state.controller is null and the tracker listens to no
\* controller), the error is reported (500), and the init lock is released:
\* a POST /session/init that comes next is not answered 409.
C38_InitFailure ==
    [][/\ last' = InitFailed =>
             /\ \E s \in ReqSlots :
                   /\ reqPc[s] = "init:cleanup"
                   /\ reqPc'[s] = "idle"
                   /\ ctlStatus'[reqCtl[s]] = "closed"
             /\ apiController' = NoCtl
             /\ currentController' = NoCtl
             /\ listeners' = <<>>
             /\ \A c \in Ctls : emitter'[c] = <<>>
             /\ ~initLock'
       /\ (last = InitFailed /\ last'[1] = "POST /session/init") =>
             last'[3] # "409"]_vars

\* a session made by the API was replaced by a POST /session/init whose
\* controller.init() failed: the first controller and the failed one are
\* closed and the API has no session
C38_Witness ==
    /\ last = InitFailed
    /\ ctlStatus = [c1 |-> "closed", c2 |-> "closed"]
    /\ owned
    /\ nAttach = 1
    /\ apiController = NoCtl

\* ======================================================================
\* The approval routes of the REST API on a tracker with pending approvals
\* ======================================================================
ApproveRoutes ==
    {"POST /agents/:name/approve-plan", "POST /agents/:name/approve-permission"}

\* the type of the response an approval route sends
ResponseType(route) ==
    IF route = "POST /agents/:name/approve-plan" THEN "plan_approval_response"
    ELSE "permission_response"

\* createApi(controller) with some approvals pending and no response sent
InitApprove ==
    /\ InitActions
    /\ listed = <<>>

\* POST /agents/:name/approve-plan or approve-permission, from its arrival
\* to its response: sendPlanApproval() or sendPermissionResponse() to the
\* :name of the path, then tracker.resolveApproval(body.requestId)
ApproveRequest(route, v, b, fails) ==
    LET h == Handle(route, v, b, TRUE, fails)
        call == IF route = "POST /agents/:name/approve-plan"
                THEN "sendPlanApproval" ELSE "sendPermissionResponse"
    IN /\ nReqs < MaxRequests
       /\ nReqs' = nReqs + 1
       /\ resp' = h.r
       /\ routeOps' = h.ops
       /\ routeVal' = <<v, b>>
       /\ last' = Step(route, v, h.r.status)
       /\ lastCtl' = NoCtl
       /\ inbox' = IF call \in h.ops /\ ~fails
                   THEN WriteInbox(inbox, v, RequestText(ResponseType(route), b))
                   ELSE inbox
       /\ approvals' = IF "resolveApproval" \in h.ops
                       THEN MapDelete(approvals, b)
                       ELSE approvals
       /\ UNCHANGED <<teamName, initialized, team, pollerRunning, procVars, initVars,
                      shutVars, callVars, taskVars, cursor, nMsgs, recvVars, batchVars>>
       /\ UNCHANGED <<idleAgents, agentTypes, listeners, currentController, emitter,
                      nAttach>>
       /\ UNCHANGED <<external, apiController, owned, initLock, ctlStatus, reqPc,
                      reqCtl, reqValid, actVars, extraVars>>

NextApprove ==
    \E route \in ApproveRoutes, v \in Agents, b \in RequestIds \cup {""},
       fails \in BOOLEAN :
        ApproveRequest(route, v, b, fails)

SpecApprove == InitApprove /\ [][NextApprove]_vars

\* ----------------------------------------------------------------------
\* Resolving a pending approval, checked under SpecApprove
\* ----------------------------------------------------------------------
\* the agent whose request r is pending
Requester(r) ==
    (CHOOSE e \in {approvals[i] : i \in 1..Len(approvals)} : e.k = r).v.agent

\* C35: an approval route removes the pending approval of a requestId only
\* in a step that has written a response with that requestId to the mailbox
\* of the agent that made the request; when the response cannot be sent,
\* or goes to another agent than the requester, the approval stays pending.
C35_ResolvedAfterResponse ==
    [][\A r \in RequestIds :
          (MapHas(approvals, r) /\ ~MapHas(approvals', r)) =>
              /\ Len(inbox'[Requester(r)]) = Len(inbox[Requester(r)]) + 1
              /\ inbox'[Requester(r)][Len(inbox'[Requester(r)])].text.requestId = r]_vars

\* ----------------------------------------------------------------------
\* What receive() reads and what it returns, checked under SpecRecv
\* ----------------------------------------------------------------------
PlainOnes(msgs) == SelectSeq(msgs, LAMBDA m : ParseMessage(m).type = "plain_text")

\* C33: receive() discards no message.  A later call reads the mailbox from
\* the cursor on, so a message can still be returned later only if the
\* cursor has not passed it: in the step where readUnread() of receive()
\* settles, every plain-text message the cursor passes (from any sender) is
\* among the messages the call returns.
C33_NothingDiscarded ==
    [][(recvPc = "read" /\ recvPc' # "read") =>
          LET read == SubSeq(inbox[Controller], cursor + 1, cursor')
              returned == IF last' = Step("receive", recvArg.from, "return")
                          THEN recvOut' ELSE <<>>
          IN Len(PlainOnes(read)) = Len(PlainOnes(returned))]_vars

\* ======================================================================
\* The poller's events and receive() on the one mailbox of the controller
\* ======================================================================
\* one poll cycle of the running poller: the unread mail of the controller
\* is read and handed, as one batch, to handlePollEvents()
PollDeliver ==
    /\ pollerRunning
    /\ cursor < Len(inbox[Controller])
    /\ LET r == ReadUnread(inbox, cursor)
       IN /\ cursor' = r.cursor
          /\ emitted' = HandlePollEvents(r.unread, emitted)
    /\ last' = Quiet
    /\ UNCHANGED <<lifeVars, taskVars, nMsgs, recvVars, batchVars, trkVars, apiVars,
                   routeVars, actVars, pollVars, killRes, envVars, mailVars, polled,
                   handled, mergeVars>>

\* receive() calls and poll cycles on a controller whose agents write to it
NextDeliver ==
    \/ \E name \in Agents, all \in BOOLEAN : ReceiveCall(name, 1, 1, all)
    \/ ReceiveRead
    \/ ReceiveWake
    \/ Tick
    \/ \E n \in Agents, text \in AgentTexts : AgentWrite(n, text)
    \/ PollDeliver

SpecDeliver == InitStarted /\ [][NextDeliver]_vars

\* ----------------------------------------------------------------------
\* Entries of the controller's mailbox and events, checked under SpecDeliver
\* ----------------------------------------------------------------------
\* C32: every entry appended to the controller's mailbox while the poller
\* runs is emitted as exactly one event, whatever receive() calls
\* interleave with the poll cycles.  A poll cycle reads the mailbox from
\* the cursor on, so an entry is emitted only if a poll cycle moved the
\* cursor past it: the entries behind the cursor are the events emitted,
\* one for one and in order.
C32_EveryEntryEmitted ==
    /\ Len(emitted) = cursor
    /\ \A i \in 1..Len(emitted) :
          /\ i <= Len(inbox[Controller])
          /\ emitted[i].from = inbox[Controller][i].from
          /\ emitted[i].type = ParseMessage(inbox[Controller][i]).type

====
